---- MODULE Spec2Model ----
(***************************************************************************)
(* Verification model of fix dp_pimd (src/src/REPLICA/fix_dp_pimd.cpp):    *)
(* the keyword parser of the constructor, the inter-replica bead exchange  *)
(* (comm_init / comm_exec) and the per-timestep sequence of sub-steps and  *)
(* blocking operations on a grid of NP replicas x NS shards.               *)
(*                                                                         *)
(* The specifications share the variables:                                 *)
(*   SpecArgs  the constructor run on a bounded set of keyword lists;      *)
(*   SpecComm  one comm_exec call on every spatial decomposition;          *)
(*   Spec      constructor, init, setup and timesteps of every process;    *)
(*   SpecGrid  comm_init on every partition of the universe into worlds;   *)
(*   SpecNm    nmpimd_init and the normal-mode transforms;                 *)
(*   SpecOne   one timestep on a universe of one process;                  *)
(*   SpecBuf   the buffer capacities over comm_exec calls with migration;  *)
(*   SpecTr    nmpimd_transform of every process on its bead buffers;      *)
(*   SpecSub   one call of a sub-step function on every process;          *)
(*   SpecRuns  the handlers of the fix over a sequence of run commands.    *)
(***************************************************************************)
EXTENDS Integers, Sequences, FiniteSets, TLC

VARIABLES
  run,        \* the position of the fix command in RunList (0 where no run is made)
  arg,        \* the fix command's words: arg[1..3] = ID group style, then keywords
  cfg,        \* the fields the constructor assigns (method, integrator, ...)
  stage,      \* "new", then "constructed", and "failed" after a fatal error
  map_style,  \* atom->map_style of the host engine (0: no id-to-slot map)
  tags,       \* tags[u]: atom->tag of process u, the ids of its owned slots
  ghost,      \* ghost[u]: ids process u holds as ghost atoms (slot >= nlocal)
  src,        \* src[u]: the per-atom array passed to comm_exec, by slot
  buf_beads,  \* buf_beads[u][r][i]: bead buffer of process u, replica r, slot i
  iplan,      \* comm_exec: index of the next plan entry (-1 before the call)
  pc,         \* pc[u]: index of the next operation of process u in its program
  step,       \* step[u]: the timestep process u is in (0 = init and setup)
  vw,         \* vw[u]: piston velocity held by process u
  domain,     \* domain[u]: box lengths and bounds held by process u
  est,        \* est[u]: the estimator scalars held by process u
  layout,     \* layout[r + 1]: number of processes of world r (-partition)
  plan,       \* plan[u]: what comm_init built on process u (<< >> before)
  np,         \* universe->nworlds as nmpimd_init reads it (0 where unused)
  atom_mass,  \* atom->mass[1], the physical mass of the one atom type
  nm,         \* nm[k]: what nmpimd_init built on replica k (<< >> before)
  x0,         \* x0[k]: one coordinate of one atom on replica k before the transforms
  xbead,      \* xbead[k]: that coordinate as replica k holds it now
  ntransf,    \* number of nmpimd_transform calls made on the coordinate
  atoms,      \* one-replica run: atom->x, v, f of the two atoms (one coordinate)
  nsent,      \* one-replica run: MPI_Sendrecv calls comm_exec has made
  holder,     \* holder[r][b]: shard of replica r that owns the atoms of block b
  bsize,      \* number of atoms of a block (the atoms of a block migrate together)
  cap,        \* cap[u]: max_nlocal, max_nsend and the capacity of each buffer
  unfit,      \* unfit[u]: buffers written beyond their capacity in the last call
  phase,      \* "init" after comm_init, "migrated", "exchanged" after comm_exec
  deco,       \* transform run: deco[t] is the shard that owns atom t in every replica
  rows,       \* transform run: rows[r] is the matrix row of replica r
  bb,         \* transform run: bb[u][j][m], bead buffer j of process u, flat index m
  des,        \* transform run: des[u][i][d], the destination array of process u
  ntr,        \* transform run: processes that have returned from nmpimd_transform
  parts,      \* sub-step run: parts[u], atom->x, v, f and the thermostat scalars of u
  fn,         \* sub-step run: the sub-step function every process calls ("" otherwise)
  dt,         \* run sequence: update->dt of the host engine (0 otherwise)
  consts,     \* run sequence: dtv, dtf and the tables of Langevin_init
  track,      \* run sequence: track[u], transforms applied to atom->x, v, f of
              \* process u and the intervals its sub-steps have propagated
  hnext,      \* run sequence: the handler the host engine calls next
  nrun,       \* run sequence: number of the run command being executed
  nstep       \* run sequence: timesteps completed in this run

vars == <<run, arg, cfg, stage, map_style, tags, ghost, src, buf_beads, iplan, pc, step, vw,
          domain, est, layout, plan, np, atom_mass, nm, x0, xbead, ntransf,
          atoms, nsent, holder, bsize, cap, unfit, phase, deco, rows, bb, des,
          ntr, parts, fn, dt, consts, track, hnext, nrun, nstep>>

ctorVars == <<run, arg, cfg, stage>>
hostVars == <<map_style>>
commVars == <<tags, ghost, src, buf_beads, iplan>>
stepVars == <<pc, step, vw, domain, est>>
gridVars == <<layout, plan>>
nmVars == <<np, atom_mass, nm, x0, xbead, ntransf>>
oneVars == <<atoms, nsent>>
bufVars == <<holder, bsize, cap, unfit, phase>>
trVars == <<deco, rows, bb, des, ntr>>
subVars == <<parts, fn>>
runVars == <<dt, consts, track, hnext, nrun, nstep>>
auxVars == <<gridVars, nmVars, oneVars, bufVars, trVars, subVars, runVars>>

----------------------------------------------------------------------------
(* Bounds of the model.                                                    *)

NP == 2          \* replicas (universe->nworlds)
NS == 2          \* shards per replica (comm->nprocs)
NAtoms == 2      \* particle ids 1..NAtoms
MaxOpts == 2     \* keyword options on the fix command line (SpecArgs)
MaxSteps == 2    \* timesteps of a run (Spec)
MaxRuns == 2     \* run commands issued with the fix in place (SpecRuns)

----------------------------------------------------------------------------
(* The constructor: FixDPPimd::FixDPPimd, fix_dp_pimd.cpp:60-225.          *)

\* the word read at a position past narg
Uninit == "uninit"

\* the value of a member the constructor and init leave unassigned
\* (pilescale and seed have no default)
Indet == -999

\* atof / atoi: the number a word denotes, 0 for a word that is no number
Atof(s) ==
  CASE s = "-1" -> -1
    [] s = "0" -> 0
    [] s = "1" -> 1
    [] s = "2" -> 2
    [] OTHER -> 0

\* fix_dp_pimd.cpp:64-84
Defaults ==
  [method |-> "NMPIMD", fmmode |-> "physical", integrator |-> "obabo",
   thermostat |-> "PILE_L", barostat |-> "BZP", ensemble |-> "nvt",
   fmass |-> 1, sp |-> 1, temp |-> 298, tau |-> 1, tau_p |-> 1, Pext |-> 1,
   harmonicflag |-> 0, omega |-> 0, tiflag |-> 0, timethod |-> "MSTI",
   lambda |-> 0, pextflag |-> 0, mapflag |-> 1, removecomflag |-> 1,
   pilescale |-> Indet, seed |-> Indet, err |-> "none"]

\* arg[i] of the source (0-based); a read past narg yields no word
Arg(a, i) == IF i + 1 <= Len(a) THEN a[i + 1] ELSE Uninit

\* error->universe_all: the whole grid aborts, nothing after it runs
Fatal(c, msg) == [c EXCEPT !.err = msg]

\* one pass of the loop body at fix_dp_pimd.cpp:88-224 for keyword arg[i];
\* the result carries the increment of i (2, or 3 after the extra i++)
fixcomBody(c, v) ==
  IF v = "no" THEN [c EXCEPT !.removecomflag = 1]
  ELSE IF v = "yes" THEN [c EXCEPT !.removecomflag = 0]
  ELSE c

mapBody(c, v) ==
  IF v = "yes" THEN [c EXCEPT !.mapflag = 1]
  ELSE IF v = "no" THEN [c EXCEPT !.mapflag = 0]
  ELSE c

thermostatBody(c, v, s) ==
  IF v \in {"PILE_G", "SVR", "PILE_L"}
  THEN [c EXCEPT !.thermostat = v,
                 !.seed = IF s = Uninit THEN Indet ELSE Atof(s)]
  ELSE Fatal(c, "Unknown thermostat parameter for fix pimd")

ensembleBody(c, v) ==
  IF v \in {"nve", "nvt"} THEN [c EXCEPT !.ensemble = v]
  ELSE IF v \in {"nph", "npt"} THEN [c EXCEPT !.ensemble = v, !.pextflag = 1]
  ELSE Fatal(c, "Unknown ensemble parameter for fix pimd")

tiBody(c, v, l) ==
  LET c1 == [c EXCEPT !.tiflag = 1] IN
  IF v \in {"MSTI", "SCTI"}
  THEN [c1 EXCEPT !.timethod = v, !.lambda = Atof(l)]
  ELSE Fatal(c1, "Unknown method parameter for thermodynamic integration")

KeywordBody(a, i, c) ==
  LET k == Arg(a, i)
      v == Arg(a, i + 1)
  IN
  CASE k = "method" ->
         IF v = "pimd" THEN [c EXCEPT !.method = "PIMD"]
         ELSE IF v = "nmpimd" THEN [c EXCEPT !.method = "NMPIMD"]
         ELSE IF v = "cmd" THEN [c EXCEPT !.method = "CMD"]
         ELSE Fatal(c, "Unknown method parameter for fix pimd")
    [] k = "integrator" ->
         IF v \in {"obabo", "baoab"} THEN [c EXCEPT !.integrator = v]
         ELSE Fatal(c, "Unknown integrator parameter for fix pimd")
    [] k = "ensemble" -> ensembleBody(c, v)
    [] k = "fmass" ->
         LET c1 == [c EXCEPT !.fmass = Atof(v)] IN
         IF c1.fmass < 0 \/ c1.fmass > 1
         THEN Fatal(c1, "Invalid fmass value for fix pimd") ELSE c1
    [] k = "fmmode" ->
         IF v \in {"physical", "normal"} THEN [c EXCEPT !.fmmode = v]
         ELSE Fatal(c, "Unknown fictitious mass mode for fix pimd")
    [] k = "scale" ->
         LET c1 == [c EXCEPT !.pilescale = Atof(v)] IN
         IF c1.pilescale < 0
         THEN Fatal(c1, "Invalid pile scale value for fix pimd") ELSE c1
    [] k = "sp" ->
         LET c1 == [c EXCEPT !.sp = Atof(v)] IN
         IF c1.fmass < 0
         THEN Fatal(c1, "Invalid sp value for fix pimd") ELSE c1
    [] k = "temp" ->
         LET c1 == [c EXCEPT !.temp = Atof(v)] IN
         IF c1.temp < 0
         THEN Fatal(c1, "Invalid temp value for fix pimd") ELSE c1
    [] k = "thermostat" -> thermostatBody(c, v, Arg(a, i + 2))
    [] k = "tau" -> [c EXCEPT !.tau = Atof(v)]
    [] k = "press" ->
         LET c1 == [c EXCEPT !.Pext = Atof(v)] IN
         IF c1.Pext < 0
         THEN Fatal(c1, "Invalid press value for fix pimd") ELSE c1
    [] k = "barostat" ->
         IF v \in {"MTTK", "BZP"} THEN [c EXCEPT !.barostat = v]
         ELSE Fatal(c, "Unknown barostat parameter for fix pimd")
    [] k = "taup" ->
         LET c1 == [c EXCEPT !.tau_p = Atof(v)] IN
         IF c1.tau_p <= 0
         THEN Fatal(c1, "Invalid tau_p value for fix pimd") ELSE c1
    [] k = "ti" -> tiBody(c, v, Arg(a, i + 2))
    [] k = "model" ->
         LET c1 == [c EXCEPT !.harmonicflag = 1, !.omega = Atof(v)] IN
         IF c1.omega < 0
         THEN Fatal(c1, "Invalid model frequency value for fix pimd") ELSE c1
    [] k = "fixcom" -> fixcomBody(c, v)
    [] k = "map" -> mapBody(c, v)
    [] OTHER -> Fatal(c, "Unknown keyword for fix pimd")

\* the extra i++ of the keywords that read two values (thermostat, ti)
KeywordStride(a, i) ==
  LET k == Arg(a, i)
      v == Arg(a, i + 1)
  IN
  IF k = "thermostat" /\ v \in {"PILE_G", "SVR", "PILE_L"} THEN 3
  ELSE IF k = "ti" THEN 3
  ELSE 2

\* for(int i=3; i<narg-1; i+=2), fix_dp_pimd.cpp:86
RECURSIVE ParseFrom(_, _, _)
ParseFrom(a, i, c) ==
  IF ~(i < Len(a) - 1) THEN c
  ELSE LET c1 == KeywordBody(a, i, c) IN
       IF c1.err # "none" THEN c1
       ELSE ParseFrom(a, i + KeywordStride(a, i), c1)

ParseArgs(a) == ParseFrom(a, 3, Defaults)

----------------------------------------------------------------------------
(* The process grid: universe rank u = iworld * NS + me.                   *)

Procs == 0 .. (NP * NS - 1)
Replicas == 0 .. (NP - 1)
Shards == 0 .. (NS - 1)
iworldOf(u) == u \div NS
meOf(u) == u % NS
World(r) == (r * NS) .. (r * NS + NS - 1)

----------------------------------------------------------------------------
(* The bead exchange: comm_init and comm_exec, fix_dp_pimd.cpp:2023-2267.  *)
(* Per-atom arrays are sequences; slot i of the source (0-based) is        *)
(* element i + 1.                                                          *)

Ids == 1 .. NAtoms
At(a, i) == a[i + 1]
nlocalOf(u) == Len(tags[u])

\* the content of a bead-buffer entry that was never written
Unwritten == -1
\* the content of ptr[index] for a ghost slot (index >= nlocal)
GhostVal == -2

\* fix_dp_pimd.cpp:2053-2054
ncomms == NS
size_plan == NP * NS - ncomms

\* fix_dp_pimd.cpp:2059-2068, plan entry k = i*ncomms + j
plan_send(u, k) ==
  LET i == k \div ncomms
      j == k % ncomms
      i_send == (iworldOf(u) + i + 1) % NP
  IN i_send * ncomms + ((meOf(u) + j) % ncomms)

plan_recv(u, k) ==
  LET i == k \div ncomms
      j == k % ncomms
      i_recv == (iworldOf(u) - i - 1 + NP) % NP
  IN i_recv * ncomms + ((meOf(u) - j + ncomms) % ncomms)

mode_index(u, k) ==
  LET i == k \div ncomms
  IN (iworldOf(u) + i + 1) % NP

\* number of ids of the set g that are smaller than t
RankIn(g, t) == Cardinality({x \in g : x < t})

\* atom->map(t) on process u: the slot of an owned atom, a slot >= nlocal
\* for a ghost atom, -1 for an atom the process does not hold
Map(u, t) ==
  IF \E i \in 0 .. (nlocalOf(u) - 1) : At(tags[u], i) = t
  THEN CHOOSE i \in 0 .. (nlocalOf(u) - 1) : At(tags[u], i) = t
  ELSE IF t \in ghost[u] THEN nlocalOf(u) + RankIn(ghost[u], t)
  ELSE -1

\* ptr[index][0..2] on process u
Ptr(u, index) == IF index < nlocalOf(u) THEN At(src[u], index) ELSE GhostVal

\* the test without its upper bound: a ghost copy would be answered for
Owned_any(u, index) == index >= 0

\* the test that selects the atoms a process answers for, fix_dp_pimd.cpp:2211
Owned(u, index) == index >= 0 /\ index < nlocalOf(u)

\* fix_dp_pimd.cpp:2210-2215: the body of the search loop for the id t,
\* index = atom->map(t)
SearchEntry(u, t, index) ==
  IF Owned(u, index) THEN << <<t, Ptr(u, index)>> >> ELSE << >>

\* fix_dp_pimd.cpp:2208-2216: process u searches tag_search[i..] and
\* appends what it owns to (tag_send, buf_send), here a sequence of pairs
RECURSIVE Search(_, _, _)
Search(u, tag_search, i) ==
  IF i >= Len(tag_search) THEN << >>
  ELSE SearchEntry(u, At(tag_search, i), Map(u, At(tag_search, i)))
       \o Search(u, tag_search, i + 1)

\* what process q sends back at plan entry k: it has received the tags of
\* plan_recv[k] (fix_dp_pimd.cpp:2182-2201) and answers to plan_recv[k]
\* (fix_dp_pimd.cpp:2220-2247)
Reply(q, k) == Search(q, tags[plan_recv(q, k)], 0)

\* fix_dp_pimd.cpp:2252-2256: process u copies the nrecv received values
\* into the bead buffer of replica mode_index[k]
RECURSIVE Store(_, _, _, _)
Store(u, bead, recv, i) ==
  IF i >= Len(recv) THEN bead
  ELSE LET index == Map(u, At(recv, i)[1])
       IN Store(u, [bead EXCEPT ![index + 1] = At(recv, i)[2]], recv, i + 1)

\* the body of the loop over the plan, entry k, on process u
PlanEntry(u, bufs, k) ==
  LET m == mode_index(u, k)
  IN [bufs EXCEPT ![m] = Store(u, bufs[m], Reply(plan_send(u, k), k), 0)]

RECURSIVE PlanLoop(_, _, _)
PlanLoop(u, bufs, k) ==
  IF k >= size_plan THEN bufs
  ELSE PlanLoop(u, PlanEntry(u, bufs, k), k + 1)

\* every MPI_Sendrecv of the loop finds its partner: the process u sends
\* to at entry k receives from u at entry k
PlanPaired ==
  \A u \in Procs : \A k \in 0 .. (size_plan - 1) :
    plan_recv(plan_send(u, k), k) = u

\* comm_exec(ptr) on every process: the local copy (fix_dp_pimd.cpp:2170),
\* then the loop over the plan
comm_exec_all ==
  [u \in Procs |->
     PlanLoop(u, [buf_beads[u] EXCEPT ![iworldOf(u)] = src[u]], 0)]

CommExec ==
  /\ iplan = -1
  /\ PlanPaired
  /\ buf_beads' = comm_exec_all
  /\ iplan' = size_plan
  /\ UNCHANGED <<ctorVars, hostVars, auxVars, stepVars, tags, ghost, src>>

----------------------------------------------------------------------------
(* The operations a process executes, in program order.  An operation is   *)
(* local, or blocking on a communicator: "U" is universe->uworld (the      *)
(* whole grid), "W" is world (the shards of the caller's replica).         *)
(*   f  the function of fix_dp_pimd.cpp the operation belongs to           *)
(*   k  "local", "barrier", "allreduce", "bcast" (root 0) or "exchange"    *)
(*   c  the communicator, "-" for a local operation                        *)
(*   d  what the operation computes or transfers                           *)
(*   e  TRUE for the first operation of a call of f                        *)

Loc(f, d) == [f |-> f, k |-> "local", c |-> "-", d |-> d, e |-> FALSE]
Enter(f, d) == [f |-> f, k |-> "local", c |-> "-", d |-> d, e |-> TRUE]
Barrier(f) == [f |-> f, k |-> "barrier", c |-> "U", d |-> "", e |-> FALSE]
Allreduce(f, c, d) == [f |-> f, k |-> "allreduce", c |-> c, d |-> d, e |-> FALSE]
Bcast(f, c, d) == [f |-> f, k |-> "bcast", c |-> c, d |-> d, e |-> FALSE]
Exchange(f, c, d) == [f |-> f, k |-> "exchange", c |-> c, d |-> d, e |-> FALSE]

\* fix_dp_pimd.cpp:1323-1379
b_step == <<Enter("b_step", "kick")>>

\* fix_dp_pimd.cpp:1674-1695
a_step == <<Enter("a_step", "rotate")>>

\* qc_step without the broadcast of the box lengths
qc_step_unshared(c, u) ==
  IF c.pextflag = 0 THEN <<Enter("qc_step", "drift")>>
  ELSE <<Enter("qc_step", "drift_scale"),
         Barrier("qc_step"),
         Loc("qc_step", "set_box")>>

\* fix_dp_pimd.cpp:1548-1621
qc_step(c, u) ==
  IF c.pextflag = 0 THEN <<Enter("qc_step", "drift")>>
  ELSE <<Enter("qc_step", "drift_scale"),
         Barrier("qc_step"),
         Bcast("qc_step", "U", "xprd"),
         Bcast("qc_step", "U", "yprd"),
         Bcast("qc_step", "U", "zprd"),
         Loc("qc_step", "set_box")>>

\* fix_dp_pimd.cpp:1699-1717; group->vcm reduces over world
remove_com_motion(u) ==
  IF iworldOf(u) = 0
  THEN <<Enter("remove_com_motion", ""),
         Allreduce("remove_com_motion", "W", "vcm"),
         Loc("remove_com_motion", "subtract")>>
  ELSE <<Enter("remove_com_motion", "")>>

\* fix_dp_pimd.cpp:1721-1771
svr_step(which) ==
  <<Loc("svr_step", "ke_0"),
    Allreduce("svr_step", which, "ke_total"),
    Loc("svr_step", "noise"),
    Allreduce("svr_step", which, "noise_total"),
    Loc("svr_step", "alpha"),
    Bcast("svr_step", which, "alpha"),
    Loc("svr_step", "scale")>>

\* o_step whose PILE_G branch rescales over the whole grid on replica 0
o_step_grid_on_centroid(c, u) ==
  <<Enter("o_step", "")>> \o
  (IF c.thermostat = "PILE_L" THEN <<Loc("o_step", "langevin")>>
   ELSE IF c.thermostat = "SVR" THEN svr_step("U")
   ELSE IF iworldOf(u) = 0 THEN svr_step("U")
   ELSE <<Loc("o_step", "langevin")>>)

\* fix_dp_pimd.cpp:1849-1895
o_step(c, u) ==
  <<Enter("o_step", "")>> \o
  (IF c.thermostat = "PILE_L" THEN <<Loc("o_step", "langevin")>>
   ELSE IF c.thermostat = "SVR" THEN svr_step("U")
   ELSE IF iworldOf(u) = 0 THEN svr_step("W")
   ELSE <<Loc("o_step", "langevin")>>)

\* press_v_step that keeps the value each process computed for itself
press_v_step_unshared(c, u) ==
  IF c.barostat = "BZP"
  THEN <<Enter("press_v_step", "bzp")>> \o
       (IF iworldOf(u) = 0
        THEN <<Loc("press_v_step", "dvw_proc"),
               Allreduce("press_v_step", "W", "dvw"),
               Loc("press_v_step", "add_dvw")>>
        ELSE << >>) \o
       <<Barrier("press_v_step")>>
  ELSE <<Enter("press_v_step", "mttk")>>

\* fix_dp_pimd.cpp:1775-1833
press_v_step(c, u) ==
  IF c.barostat = "BZP"
  THEN <<Enter("press_v_step", "bzp")>> \o
       (IF iworldOf(u) = 0
        THEN <<Loc("press_v_step", "dvw_proc"),
               Allreduce("press_v_step", "W", "dvw"),
               Loc("press_v_step", "add_dvw")>>
        ELSE << >>) \o
       <<Barrier("press_v_step"), Bcast("press_v_step", "U", "vw")>>
  ELSE <<Enter("press_v_step", "mttk")>>

\* fix_dp_pimd.cpp:1837-1847
press_o_step ==
  <<Enter("press_o_step", "noise"),
    Barrier("press_o_step"),
    Bcast("press_o_step", "U", "vw")>>

\* fix_dp_pimd.cpp:1995-1999; forward_comm_fix exchanges ghost data in world
nmpimd_fill(a) == <<Exchange("nmpimd_fill", "W", a)>>

\* fix_dp_pimd.cpp:2146-2267; the plan is empty when there is one replica
comm_exec(a) ==
  IF NP > 1 THEN <<Exchange("comm_exec", "U", a)>>
  ELSE <<Loc("comm_exec", a)>>

\* fix_dp_pimd.cpp:2003-2017: the array a is multiplied by the matrix m
\* (M_x2xp into normal-mode space, M_xp2x back)
nmpimd_transform(a, m) ==
  <<Enter("nmpimd_transform",
          CASE a = "x" /\ m = "M_x2xp" -> "x_forward"
            [] a = "x" /\ m = "M_xp2x" -> "x_inverse"
            [] a = "v" /\ m = "M_x2xp" -> "v_forward"
            [] a = "f" /\ m = "M_x2xp" -> "f_forward"
            [] OTHER -> "other")>>

\* the block without the transform back to the beads
TransformBlock_forward_only(c, h, a, m) ==
  IF c.method = "NMPIMD" /\ m = "M_x2xp"
  THEN <<Barrier(h)>> \o nmpimd_fill(a) \o <<Barrier(h)>> \o comm_exec(a)
       \o <<Barrier(h)>> \o nmpimd_transform(a, m)
  ELSE << >>

\* the block "Barrier; fill; Barrier; comm_exec; Barrier; transform",
\* fix_dp_pimd.cpp:557-565, 717-725, 864-872, 908-947, 1220-1228
TransformBlock(c, h, a, m) ==
  IF c.method = "NMPIMD"
  THEN <<Barrier(h)>> \o nmpimd_fill(a) \o <<Barrier(h)>> \o comm_exec(a)
       \o <<Barrier(h)>> \o nmpimd_transform(a, m)
  ELSE << >>

\* compute_totke with both reductions over the replica's communicator
compute_totke_world_only ==
  <<Loc("compute_totke", "kine"),
    Barrier("compute_totke"),
    Allreduce("compute_totke", "W", "ke_bead"),
    Barrier("compute_totke"),
    Allreduce("compute_totke", "W", "totke"),
    Allreduce("compute_totke", "W", "c_press")>>

\* fix_dp_pimd.cpp:2526-2552; c_press->compute_scalar reduces over world
compute_totke ==
  <<Loc("compute_totke", "kine"),
    Barrier("compute_totke"),
    Allreduce("compute_totke", "W", "ke_bead"),
    Barrier("compute_totke"),
    Allreduce("compute_totke", "U", "totke"),
    Allreduce("compute_totke", "W", "c_press")>>

\* fix_dp_pimd.cpp:2490-2515
compute_p_cv ==
  <<Loc("compute_p_cv", "p_md_p_cv"),
    Barrier("compute_p_cv"),
    Bcast("compute_p_cv", "U", "p_cv")>>

\* fix_dp_pimd.cpp:2572-2625
compute_spring_energy ==
  <<Loc("compute_spring_energy", "spring_energy"),
    Barrier("compute_spring_energy"),
    Allreduce("compute_spring_energy", "W", "se_bead"),
    Barrier("compute_spring_energy"),
    Allreduce("compute_spring_energy", "U", "total_spring_energy")>>

\* update_x_unwrap that keeps the snapshot it has
update_x_unwrap_no_copy ==
  <<Barrier("update_x_unwrap"),
    Barrier("update_x_unwrap")>>

\* fix_dp_pimd.cpp:1053-1092
update_x_unwrap ==
  <<Barrier("update_x_unwrap"),
    Loc("update_x_unwrap", "copy"),
    Barrier("update_x_unwrap")>>

\* fix_dp_pimd.cpp:2272-2291
compute_xc == comm_exec("x") \o <<Barrier("compute_xc"), Loc("compute_xc", "xc")>>

\* fix_dp_pimd.cpp:2395-2437; c_press->compute_vector reduces over world
compute_vir ==
  <<Allreduce("compute_vir", "W", "c_press"),
    Loc("compute_vir", "vir"),
    Barrier("compute_vir"),
    Allreduce("compute_vir", "U", "vir")>>

\* fix_dp_pimd.cpp:2316-2391
compute_vir_ ==
  <<Barrier("compute_vir_"),
    Loc("compute_vir_", "xf_xcf"),
    Barrier("compute_vir_"),
    Allreduce("compute_vir_", "U", "vir_"),
    Allreduce("compute_vir_", "U", "centroid_vir")>>

\* fix_dp_pimd.cpp:2556-2568; c_pe->compute_scalar reduces over world
compute_pote ==
  <<Allreduce("compute_pote", "W", "c_pe"),
    Loc("compute_pote", "partition"),
    Barrier("compute_pote"),
    Allreduce("compute_pote", "U", "pote")>>

\* domain->unmap of every local atom when mapflag is set,
\* fix_dp_pimd.cpp:551-556, 659-665, 1102-1107
unmap(c, h) == IF c.mapflag = 1 THEN <<Loc(h, "unmap")>> ELSE << >>

\* unmap_inv that post_force leaves out
unmap_inv_not_in_post_force(c, h) ==
  IF c.mapflag = 1 /\ h # "post_force" THEN <<Loc(h, "unmap_inv")>> ELSE << >>

\* domain->unmap_inv of every local atom when mapflag is set,
\* fix_dp_pimd.cpp:588-594, 972-980, 1112-1118
unmap_inv(c, h) == IF c.mapflag = 1 THEN <<Loc(h, "unmap_inv")>> ELSE << >>

Thermostatted(c) == c.ensemble = "nvt" \/ c.ensemble = "npt"

\* o_step and what follows it, fix_dp_pimd.cpp:685-690, 875-880, 1034-1039
OBlock(c, u) ==
  IF Thermostatted(c)
  THEN o_step(c, u)
       \o (IF c.removecomflag = 1 THEN remove_com_motion(u) ELSE << >>)
       \o (IF c.pextflag = 1 THEN press_o_step ELSE << >>)
  ELSE << >>

\* initial_integrate with the BAOAB thermostat after the second A
initial_integrate_O_last(c, u) ==
  unmap(c, "initial_integrate") \o
  (IF c.integrator = "obabo"
   THEN OBlock(c, u)
        \o compute_totke \o compute_p_cv
        \o (IF c.pextflag = 1 THEN press_v_step(c, u) ELSE << >>)
        \o b_step
        \o (IF c.removecomflag = 1 THEN remove_com_motion(u) ELSE << >>)
        \o TransformBlock(c, "initial_integrate", "x", "M_x2xp")
        \o qc_step(c, u) \o a_step \o qc_step(c, u) \o a_step
   ELSE (IF c.pextflag = 1 THEN press_v_step(c, u) ELSE << >>)
        \o b_step
        \o TransformBlock(c, "initial_integrate", "x", "M_x2xp")
        \o qc_step(c, u) \o a_step
        \o qc_step(c, u) \o a_step
        \o OBlock(c, u))
  \o compute_spring_energy
  \o TransformBlock(c, "initial_integrate", "x", "M_xp2x")
  \o unmap_inv(c, "initial_integrate")

\* fix_dp_pimd.cpp:646-997
initial_integrate(c, u) ==
  unmap(c, "initial_integrate") \o
  (IF c.integrator = "obabo"
   THEN OBlock(c, u)
        \o compute_totke \o compute_p_cv
        \o (IF c.pextflag = 1 THEN press_v_step(c, u) ELSE << >>)
        \o b_step
        \o (IF c.removecomflag = 1 THEN remove_com_motion(u) ELSE << >>)
        \o TransformBlock(c, "initial_integrate", "x", "M_x2xp")
        \o qc_step(c, u) \o a_step \o qc_step(c, u) \o a_step
   ELSE (IF c.pextflag = 1 THEN press_v_step(c, u) ELSE << >>)
        \o b_step
        \o TransformBlock(c, "initial_integrate", "x", "M_x2xp")
        \o qc_step(c, u) \o a_step
        \o OBlock(c, u)
        \o qc_step(c, u) \o a_step)
  \o compute_spring_energy
  \o TransformBlock(c, "initial_integrate", "x", "M_xp2x")
  \o unmap_inv(c, "initial_integrate")

\* post_force that leaves the forces as the force provider returned them
post_force_bead_forces(c, u) ==
  unmap(c, "post_force")
  \o <<Barrier("post_force")>> \o update_x_unwrap
  \o <<Barrier("post_force")>> \o compute_xc
  \o unmap_inv(c, "post_force")
  \o compute_vir \o compute_vir_
  \o <<Loc("compute_t_prim", ""), Loc("compute_t_vir", "")>>
  \o compute_pote

\* fix_dp_pimd.cpp:1096-1246
post_force(c, u) ==
  unmap(c, "post_force")
  \o <<Barrier("post_force")>> \o update_x_unwrap
  \o <<Barrier("post_force")>> \o compute_xc
  \o unmap_inv(c, "post_force")
  \o compute_vir \o compute_vir_
  \o <<Loc("compute_t_prim", ""), Loc("compute_t_vir", "")>>
  \o compute_pote
  \o TransformBlock(c, "post_force", "f", "M_x2xp")

\* final_integrate with the thermostat before the closing kick
final_integrate_O_first(c, u) ==
  (IF c.pextflag = 1
   THEN compute_totke \o compute_p_cv \o press_v_step(c, u) ELSE << >>)
  \o (IF c.integrator = "obabo" THEN OBlock(c, u) ELSE << >>)
  \o b_step
  \o (IF c.removecomflag = 1 THEN remove_com_motion(u) ELSE << >>)

\* fix_dp_pimd.cpp:1001-1049
final_integrate(c, u) ==
  (IF c.pextflag = 1
   THEN compute_totke \o compute_p_cv \o press_v_step(c, u) ELSE << >>)
  \o b_step
  \o (IF c.removecomflag = 1 THEN remove_com_motion(u) ELSE << >>)
  \o (IF c.integrator = "obabo" THEN OBlock(c, u) ELSE << >>)

\* end_of_step that adds up the energies before the kinetic energy of
\* the step is computed
end_of_step_tote_first(c, u) ==
  <<Loc("compute_tote", "")>>
  \o compute_totke
  \o <<Loc("compute_p_prim", "")>>
  \o compute_p_cv
  \o (IF c.pextflag = 1 THEN <<Loc("compute_totenthalpy", "")>> ELSE << >>)

\* fix_dp_pimd.cpp:385-402
end_of_step(c, u) ==
  compute_totke
  \o <<Loc("compute_p_prim", "")>>
  \o compute_p_cv
  \o <<Loc("compute_tote", "")>>
  \o (IF c.pextflag = 1 THEN <<Loc("compute_totenthalpy", "")>> ELSE << >>)

\* fix_dp_pimd.cpp:406-538; group->mass reduces over world
init_map_unchecked(c, u) ==
  <<Allreduce("init", "W", "masstotal"),
    Loc("init", "comm_init"),
    Loc("init", "nmpimd_init"),
    Loc("init", "Langevin_init"),
    Loc("init", "barostat_init"),
    Loc("init", "map_style")>>
init(c, u) ==
  <<Loc("init", "map_style"),
    Allreduce("init", "W", "masstotal"),
    Loc("init", "comm_init"),
    Loc("init", "nmpimd_init"),
    Loc("init", "Langevin_init"),
    Loc("init", "barostat_init")>>

\* setup that computes the spring energy after its end_of_step
setup_spring_energy_last(c, u) ==
  unmap(c, "setup")
  \o TransformBlock(c, "setup", "x", "M_x2xp")
  \o TransformBlock(c, "setup", "x", "M_xp2x")
  \o TransformBlock(c, "setup", "v", "M_x2xp")
  \o compute_xc \o update_x_unwrap
  \o unmap_inv(c, "setup")
  \o post_force(c, u)
  \o compute_totke \o compute_pote
  \o end_of_step(c, u)
  \o compute_spring_energy

\* fix_dp_pimd.cpp:542-642
setup(c, u) ==
  unmap(c, "setup")
  \o TransformBlock(c, "setup", "x", "M_x2xp")
  \o compute_spring_energy
  \o TransformBlock(c, "setup", "x", "M_xp2x")
  \o TransformBlock(c, "setup", "v", "M_x2xp")
  \o compute_xc \o update_x_unwrap
  \o unmap_inv(c, "setup")
  \o post_force(c, u)
  \o compute_totke \o compute_pote
  \o end_of_step(c, u)

\* an operation tagged with the handler (h) the host engine called
InHandler(h, ops) == [i \in 1 .. Len(ops) |-> [h |-> h] @@ ops[i]]

\* the host engine's force evaluation between initial_integrate and
\* post_force (neighbouring, ghost exchange, pair forces: within world)
host_force == <<Exchange("host_force", "W", "f")>>

\* what a process runs before the first timestep, and in every timestep
\* (Verlet::run: initial_integrate, forces, post_force, final_integrate,
\* end_of_step)
StartProg(c, u) ==
  InHandler("init", init(c, u)) \o InHandler("setup", setup(c, u))

StepProg(c, u) ==
  InHandler("initial_integrate", initial_integrate(c, u))
  \o InHandler("host", host_force)
  \o InHandler("post_force", post_force(c, u))
  \o InHandler("final_integrate", final_integrate(c, u))
  \o InHandler("end_of_step", end_of_step(c, u))

Prog(c, u, s) == IF s = 0 THEN StartProg(c, u) ELSE StepProg(c, u)

----------------------------------------------------------------------------
(* The data the operations act on.  Reals are modelled by integers: the    *)
(* box lengths by their logarithm in units of dtv, so that the scaling by  *)
(* exp(dtv * vw) is the addition of vw, and the estimators by sums that    *)
(* keep their data dependencies (unit factors are 1).                      *)

\* the per-process sums over local atoms (kinetic energy, spring energy,
\* force-velocity sum of press_v_step, virials); pairwise distinct between
\* processes, so that a quantity that was neither reduced nor broadcast
\* differs from process to process
\* the kinetic, spring and potential energy change from timestep to
\* timestep (n is the timestep)
LocalAt(u, what, n) ==
  CASE what = "kine" -> 2 * u + 3 + n
    [] what = "spring_energy" -> u + 1 + 2 * n
    [] what = "pe" -> u + 7 + 3 * n
    [] what = "dvw_proc" -> u + 2
    [] what = "vir" -> iworldOf(u) + 1
    [] what = "xf" -> 3 * u + 1
    [] what = "xcf" -> u + 5
    [] OTHER -> 0

LocalSum(u, what) == LocalAt(u, what, step[u])

\* the standard normal draws of random->gaussian()
Gauss == {-1, 1}

\* random = new RanMars(lmp, seed + universe->me): the generator is
\* deterministic, its n-th number (n from 0) depends on the seed only; the
\* streams of two seeds of different parity differ in every number
gaussian(s, n) == IF (s + n) % 2 = 0 THEN 1 ELSE -1

est0 ==
  [kine |-> 0, ke_bead |-> 0, totke |-> 0, spring_energy |-> 0, se_bead |-> 0,
   total_spring_energy |-> 0, vir |-> 0, xf |-> 0, xcf |-> 0, vir_ |-> 0,
   centroid_vir |-> 0, p_md |-> 0, p_cv |-> 0, dvw_proc |-> 0, dvw |-> 0,
   random |-> 0, pe_bead |-> 0, pot_energy_partition |-> 0, pote |-> 0,
   tote |-> 0, totenthalpy |-> 0]

\* domain->xprd, yprd, zprd and the bounds -0.5*xprd .. 0.5*xprd
SetBox(d) ==
  [d EXCEPT !.boxlo = <<d.xprd, d.yprd, d.zprd>>,
            !.boxhi = <<d.xprd, d.yprd, d.zprd>>]

domain0 == SetBox([xprd |-> 0, yprd |-> 0, zprd |-> 0,
                   boxlo |-> << >>, boxhi |-> << >>])

\* volume = xprd * yprd * zprd
Volume(d) == d.xprd + d.yprd + d.zprd

\* the state of one process: its piston velocity, box and estimators
PState(u) == [vw |-> vw[u], domain |-> domain[u], est |-> est[u]]

\* fix_dp_pimd.cpp:506-517: init assigns vw only when a barostat is active
barostat_init(st) ==
  IF cfg.pextflag = 1 THEN [st EXCEPT !.vw = 0] ELSE st

\* fix_dp_pimd.cpp:2528-2540: the local kinetic energy; totke and ke_bead
\* are zeroed
totke_local(u, st) ==
  [st EXCEPT !.est = [st.est EXCEPT !.kine = LocalSum(u, "kine"),
                                    !.totke = 0, !.ke_bead = 0]]

\* fix_dp_pimd.cpp:2574-2616
spring_energy_local(u, st) ==
  [st EXCEPT !.est = [st.est EXCEPT
     !.spring_energy = LocalSum(u, "spring_energy"),
     !.totke = 0, !.ke_bead = 0]]

\* fix_dp_pimd.cpp:2492-2508: p_md on every process, p_cv on replica 0
p_cv_local(u, st) ==
  LET e == st.est IN
  [st EXCEPT !.est = [e EXCEPT
     !.p_md = e.totke - e.total_spring_energy + e.vir - Volume(st.domain),
     !.p_cv = IF iworldOf(u) = 0
              THEN 2 * e.ke_bead - e.centroid_vir + e.vir - Volume(st.domain)
              ELSE e.p_cv]]

\* fix_dp_pimd.cpp:2397-2433
vir_local(u, st) ==
  [st EXCEPT !.est = [st.est EXCEPT !.vir = LocalSum(u, "vir")]]

\* fix_dp_pimd.cpp:2322-2383
vir__local(u, st) ==
  [st EXCEPT !.est = [st.est EXCEPT !.xf = LocalSum(u, "xf"),
                                    !.xcf = LocalSum(u, "xcf"),
                                    !.vir_ = 0, !.centroid_vir = 0]]

\* fix_dp_pimd.cpp:1788: the pressure part of the BZP kick, on every process
press_v_bzp(st) ==
  [st EXCEPT !.vw = st.vw + Volume(st.domain) + (st.est.p_cv - cfg.Pext) + 1]

\* fix_dp_pimd.cpp:1794-1801: the force part, summed over the local atoms
press_v_dvw_proc(u, st) ==
  [st EXCEPT !.est = [st.est EXCEPT !.dvw_proc = LocalSum(u, "dvw_proc"),
                                    !.dvw = 0]]

\* fix_dp_pimd.cpp:1806
press_v_add_dvw(st) == [st EXCEPT !.vw = st.vw + st.est.dvw]

\* fix_dp_pimd.cpp:1822-1826: the MTTK kick, on every process
press_v_mttk(st) ==
  [st EXCEPT !.vw = st.vw + Volume(st.domain) + (st.est.p_md - cfg.Pext)
                    + st.est.totke]

\* fix_dp_pimd.cpp:1839-1844: universe rank 0 draws r1
press_o_noise(u, st, r1) ==
  IF u = 0
  THEN [st EXCEPT !.vw = st.vw + r1, !.est.random = st.est.random + 1]
  ELSE st

\* qc_step that also advances the piston velocity
qc_scale_kicks_piston(u, st) ==
  LET d == st.domain IN
  IF iworldOf(u) = 0 /\ cfg.barostat = "BZP"
  THEN [st EXCEPT !.vw = st.vw + 1,
                  !.domain = [d EXCEPT !.xprd = d.xprd + st.vw,
                                       !.yprd = d.yprd + st.vw,
                                       !.zprd = d.zprd + st.vw]]
  ELSE st

\* fix_dp_pimd.cpp:1585-1605: replica 0 scales its box under BZP
qc_scale(u, st) ==
  LET d == st.domain IN
  IF iworldOf(u) = 0 /\ cfg.barostat = "BZP"
  THEN [st EXCEPT !.domain = [d EXCEPT !.xprd = d.xprd + st.vw,
                                       !.yprd = d.yprd + st.vw,
                                       !.zprd = d.zprd + st.vw]]
  ELSE st

\* fix_dp_pimd.cpp:2563: the share of the replica's potential energy
pote_partition(st) ==
  [st EXCEPT !.est = [st.est EXCEPT !.pot_energy_partition = st.est.pe_bead]]

\* fix_dp_pimd.cpp:2629-2636
compute_tote_value(st) ==
  [st EXCEPT !.est = [st.est EXCEPT
     !.tote = st.est.totke + st.est.pote + st.est.total_spring_energy]]

\* fix_dp_pimd.cpp:2638-2646: the piston's kinetic energy and the
\* pressure-volume term (BZP also subtracts the logarithm of the volume)
Enthalpy(tote, w, d) ==
  tote + w * w + cfg.Pext * Volume(d)
  - (IF cfg.barostat = "BZP" THEN Volume(d) ELSE 0)

compute_totenthalpy_value(st) ==
  [st EXCEPT !.est = [st.est EXCEPT
     !.totenthalpy = Enthalpy(st.est.tote, st.vw, st.domain)]]

\* fix_dp_pimd.cpp:1612-1620
qc_set_box(st) == [st EXCEPT !.domain = SetBox(st.domain)]

\* the effect of the local operation op of process u on its state st;
\* r1 is the number random->gaussian() returns if the operation draws one
LocalEffect(op, u, st, r1) ==
  CASE op.f = "init" /\ op.d = "barostat_init" -> barostat_init(st)
    [] op.f = "compute_totke" /\ op.d = "kine" -> totke_local(u, st)
    [] op.f = "compute_spring_energy" /\ op.d = "spring_energy" ->
         spring_energy_local(u, st)
    [] op.f = "compute_p_cv" /\ op.d = "p_md_p_cv" -> p_cv_local(u, st)
    [] op.f = "compute_vir" /\ op.d = "vir" -> vir_local(u, st)
    [] op.f = "compute_vir_" /\ op.d = "xf_xcf" -> vir__local(u, st)
    [] op.f = "press_v_step" /\ op.d = "bzp" -> press_v_bzp(st)
    [] op.f = "press_v_step" /\ op.d = "dvw_proc" -> press_v_dvw_proc(u, st)
    [] op.f = "press_v_step" /\ op.d = "add_dvw" -> press_v_add_dvw(st)
    [] op.f = "press_v_step" /\ op.d = "mttk" -> press_v_mttk(st)
    [] op.f = "press_o_step" /\ op.d = "noise" -> press_o_noise(u, st, r1)
    [] op.f = "qc_step" /\ op.d = "drift_scale" -> qc_scale(u, st)
    [] op.f = "qc_step" /\ op.d = "set_box" -> qc_set_box(st)
    [] op.f = "compute_pote" /\ op.d = "partition" -> pote_partition(st)
    [] op.f = "compute_tote" -> compute_tote_value(st)
    [] op.f = "compute_totenthalpy" -> compute_totenthalpy_value(st)
    [] OTHER -> st

\* whether the local operation draws a random number on process u
Draws(op, u) == op.f = "press_o_step" /\ op.d = "noise" /\ u = 0

\* what random->gaussian() can return on process u: the next number of
\* its stream, any number when the seed was never assigned
Drawn(u) ==
  IF cfg.seed = Indet THEN Gauss
  ELSE {gaussian(cfg.seed + u, est[u].random)}

----------------------------------------------------------------------------
(* The fix commands of the runs that are checked: every combination of     *)
(* method, integrator, ensemble, thermostat, barostat and fixcom, with two *)
(* seeds where the noise of the piston enters the state (npt).             *)

Prefix == <<"1", "all", "dp_pimd">>

RECURSIVE Flatten(_)
Flatten(ss) == IF ss = << >> THEN << >> ELSE Head(ss) \o Flatten(Tail(ss))

EnsembleWords ==
  {<<"ensemble", "nve">>, <<"ensemble", "nph", "barostat", "BZP">>,
   <<"ensemble", "nph", "barostat", "MTTK">>}
  \cup {<<"ensemble", "nvt", "thermostat", t, "1">> : t \in {"PILE_L", "PILE_G", "SVR"}}
  \cup {<<"ensemble", "npt", "thermostat", t, s, "barostat", b>> :
          t \in {"PILE_L", "PILE_G", "SVR"}, s \in {"1", "2"},
          b \in {"BZP", "MTTK"}}

RECURSIVE SetToSeq(_)
SetToSeq(S) ==
  IF S = {} THEN << >>
  ELSE LET x == CHOOSE x \in S : TRUE IN <<x>> \o SetToSeq(S \ {x})

MethodWords == << <<"method", "nmpimd">>, <<"method", "pimd">> >>
IntegratorWords == << <<"integrator", "obabo">>, <<"integrator", "baoab">> >>
EnsembleList == SetToSeq(EnsembleWords)
FixcomWords == << <<"fixcom", "yes">>, <<"fixcom", "no">> >>

\* the fix commands in a fixed order; run is the position of a command
RunList ==
  Flatten([m \in DOMAIN MethodWords |->
    Flatten([i \in DOMAIN IntegratorWords |->
      Flatten([e \in DOMAIN EnsembleList |->
        [f \in DOMAIN FixcomWords |->
           Prefix \o MethodWords[m] \o IntegratorWords[i]
                  \o EnsembleList[e] \o FixcomWords[f]]])])])

Runs == 1 .. Len(RunList)

\* the configuration the constructor makes of each command and, for each,
\* the program of every process (evaluated once)
RunCfg == [r \in Runs |-> ParseArgs(RunList[r])]

ProgTable ==
  [r \in Runs |-> [u \in Procs |-> [s \in {0, 1} |-> Prog(RunCfg[r], u, s)]]]

\* the sub-step functions that act on the atoms, and the operations of
\* one call
SubFns == {"b_step", "a_step", "qc_step", "remove_com_motion", "o_step"}

SubProg(c, u, f) ==
  CASE f = "b_step" -> b_step
    [] f = "a_step" -> a_step
    [] f = "qc_step" -> qc_step(c, u)
    [] f = "remove_com_motion" -> remove_com_motion(u)
    [] f = "o_step" -> o_step(c, u)

SubTable ==
  [r \in Runs |-> [u \in Procs |-> [f \in SubFns |->
     InHandler("initial_integrate", SubProg(RunCfg[r], u, f))]]]

\* the program of process u under cfg: cfg = RunCfg[run] once constructed
ProgOf(u) ==
  IF fn = "" THEN ProgTable[run][u][IF step[u] = 0 THEN 0 ELSE 1]
  ELSE SubTable[run][u][fn]

----------------------------------------------------------------------------
(* The processes.                                                          *)

AtEnd(u) == pc[u] > Len(ProgOf(u))
CurOp(u) == ProgOf(u)[pc[u]]
Running == stage = "constructed"

\* the send buffer of an MPI_Allreduce(MPI_SUM) named by d, on process q
Operand(d, q) ==
  CASE d = "ke_bead" -> est[q].kine
    [] d = "totke" -> est[q].kine
    [] d = "se_bead" -> est[q].spring_energy
    [] d = "total_spring_energy" -> est[q].spring_energy
    [] d = "vir" -> est[q].vir
    [] d = "vir_" -> est[q].xf
    [] d = "centroid_vir" -> est[q].xcf
    [] d = "dvw" -> est[q].dvw_proc
    [] d = "c_pe" -> LocalSum(q, "pe")
    [] d = "pote" -> est[q].pot_energy_partition
    [] OTHER -> 0

\* the buffer of an MPI_Bcast named by d, on process q
Buffer(d, q) ==
  CASE d = "vw" -> vw[q]
    [] d = "p_cv" -> est[q].p_cv
    [] d = "xprd" -> domain[q].xprd
    [] d = "yprd" -> domain[q].yprd
    [] d = "zprd" -> domain[q].zprd
    [] OTHER -> 0

\* the sum of what the processes of g, each in its own call, contribute
RECURSIVE SumOver(_)
SumOver(g) ==
  IF g = {} THEN 0
  ELSE LET q == CHOOSE x \in g : TRUE
       IN Operand(CurOp(q).d, q) + SumOver(g \ {q})

\* the rank-0 process of a communicator that spans the group g
Root(g) == CHOOSE q \in g : \A x \in g : q <= x

\* the results of the blocking operation op on process u: sum is the
\* result of the reduction, sent what the root broadcasts
CollVw(op, u, sent) ==
  IF op.k = "bcast" /\ op.d = "vw" THEN sent ELSE vw[u]

CollDomain(op, u, sent) ==
  IF op.k = "bcast" /\ op.d \in {"xprd", "yprd", "zprd"}
  THEN [domain[u] EXCEPT ![op.d] = sent]
  ELSE domain[u]

CollEst(op, u, sum, sent) ==
  IF op.k = "allreduce" /\ op.d \in {"ke_bead", "totke", "se_bead",
       "total_spring_energy", "vir", "vir_", "centroid_vir", "dvw"}
  THEN [est[u] EXCEPT ![op.d] = sum]
  ELSE IF op.k = "allreduce" /\ op.d = "pote"
  THEN [est[u] EXCEPT !.pote = sum]
  ELSE IF op.k = "allreduce" /\ op.d = "c_pe"
  THEN [est[u] EXCEPT !.pe_bead = sum]
  ELSE IF op.k = "bcast" /\ op.d = "p_cv"
  THEN [est[u] EXCEPT !.p_cv = sent]
  ELSE est[u]

\* a process that can move on its own: it is at a local operation, or has
\* finished a timestep that is not the last
Movable(u) ==
  IF AtEnd(u) THEN step[u] < MaxSteps ELSE CurOp(u).k = "local"

\* Processes share no memory, so the local operations of different
\* processes commute, and so do the blocking operations of different
\* replicas: local operations are taken first, in rank order, then the
\* operations on world in replica order.  Every process passes through the
\* same states as under any other schedule.
RECURSIVE FirstMovable(_)
FirstMovable(u) ==
  IF u >= NP * NS THEN -1
  ELSE IF Movable(u) THEN u ELSE FirstMovable(u + 1)

Movers == IF ~Running THEN {} ELSE Procs \cap {FirstMovable(0)}

\* the constructor, run with the same words by every process
Construct ==
  /\ stage = "new"
  /\ cfg' = ParseArgs(arg)
  /\ stage' = IF cfg'.err = "none" THEN "constructed" ELSE "failed"
  /\ UNCHANGED <<run, arg, hostVars, auxVars, commVars, stepVars>>

\* atom->map_style: no map, or a map (array)
NoMap == 0
MapStyles == {NoMap, 1}

\* the operation calls error->all: init's test of atom->map_style
\* (fix_dp_pimd.cpp:410-411); the error ends every process of the run
Aborts(op) == op.f = "init" /\ op.d = "map_style" /\ map_style = NoMap

\* process u executes its next operation, a local one
Local(u) ==
  /\ Running /\ ~AtEnd(u)
  /\ \E op \in {CurOp(u)} :
       /\ op.k = "local"
       /\ \E r1 \in (IF Draws(op, u) THEN Drawn(u) ELSE {0}) :
            \E st \in {LocalEffect(op, u, PState(u), r1)} :
              /\ vw' = [vw EXCEPT ![u] = st.vw]
              /\ domain' = [domain EXCEPT ![u] = st.domain]
              /\ est' = [est EXCEPT ![u] = st.est]
       /\ stage' = IF Aborts(op) THEN "failed" ELSE stage
       /\ pc' = IF Aborts(op) THEN pc ELSE [pc EXCEPT ![u] = pc[u] + 1]
  /\ UNCHANGED <<run, arg, cfg, hostVars, auxVars, commVars, step>>

\* all processes of the group g are at the same blocking operation of the
\* communicator c
Arrived(g, c) ==
  /\ \A q \in g : ~AtEnd(q) /\ CurOp(q).c = c
  /\ \E k \in {CurOp(Root(g)).k} : \A q \in g : CurOp(q).k = k

TurnW(r) ==
  /\ Movers = {}
  /\ \A r2 \in Replicas : r2 < r => ~Arrived(World(r2), "W")

\* the operation all of g have entered completes on every member
Complete(g) ==
  \E kind \in {CurOp(Root(g)).k} :
  \E sum \in {IF kind = "allreduce" THEN SumOver(g) ELSE 0} :
  \E sent \in {IF kind = "bcast"
               THEN Buffer(CurOp(Root(g)).d, Root(g)) ELSE 0} :
    /\ vw' = [q \in Procs |->
                IF q \in g THEN CollVw(CurOp(q), q, sent) ELSE vw[q]]
    /\ domain' = [q \in Procs |->
                    IF q \in g THEN CollDomain(CurOp(q), q, sent) ELSE domain[q]]
    /\ est' = [q \in Procs |->
                 IF q \in g THEN CollEst(CurOp(q), q, sum, sent) ELSE est[q]]
    /\ pc' = [q \in Procs |-> IF q \in g THEN pc[q] + 1 ELSE pc[q]]
    /\ UNCHANGED <<ctorVars, hostVars, auxVars, commVars, step>>

\* a blocking operation on universe->uworld completes
CollectiveU == Running /\ Arrived(Procs, "U") /\ Complete(Procs)

\* a blocking operation on the world communicator of replica r completes
CollectiveW(r) ==
  Running /\ Arrived(World(r), "W") /\ TurnW(r) /\ Complete(World(r))

\* Verlet::run goes on to the next timestep
NextTimestep(u) ==
  /\ Running /\ AtEnd(u) /\ step[u] < MaxSteps
  /\ step' = [step EXCEPT ![u] = step[u] + 1]
  /\ pc' = [pc EXCEPT ![u] = 1]
  /\ UNCHANGED <<ctorVars, hostVars, auxVars, commVars, vw, domain, est>>

----------------------------------------------------------------------------
(* Initial states and specification.                                     *)

\* the variables a specification does not use stay empty
hostIdle == map_style = 1
gridIdle == layout = << >> /\ plan = << >>
nmIdle ==
  np = 0 /\ atom_mass = 0 /\ nm = << >> /\ x0 = << >> /\ xbead = << >> /\ ntransf = 0
oneIdle == atoms = << >> /\ nsent = 0
bufIdle ==
  holder = << >> /\ bsize = 0 /\ cap = << >> /\ unfit = << >> /\ phase = "none"
trIdle == deco = << >> /\ rows = << >> /\ bb = << >> /\ des = << >> /\ ntr = 0
subIdle == parts = << >> /\ fn = ""
runIdle ==
  dt = 0 /\ consts = << >> /\ track = << >> /\ hnext = "" /\ nrun = 0 /\ nstep = 0
auxIdle ==
  gridIdle /\ nmIdle /\ oneIdle /\ bufIdle /\ trIdle /\ subIdle /\ runIdle

commIdle ==
  /\ tags = << >> /\ ghost = << >> /\ src = << >> /\ buf_beads = << >>
  /\ iplan = -1

stepIdle ==
  /\ pc = << >> /\ step = << >> /\ vw = << >> /\ domain = << >> /\ est = << >>

\* the state of the processes when the constructor is entered
stepInit ==
  /\ pc = [u \in Procs |-> 1]
  /\ step = [u \in Procs |-> 0]
  /\ vw = [u \in Procs |-> Indet]
  /\ domain = [u \in Procs |-> domain0]
  /\ est = [u \in Procs |-> est0]

Init ==
  /\ run \in Runs
  /\ arg = RunList[run]
  /\ cfg = Defaults
  /\ stage = "new"
  /\ map_style \in MapStyles
  /\ commIdle
  /\ stepInit
  /\ auxIdle

Next ==
  \/ Construct
  \/ \E u \in Movers : Local(u)
  \/ CollectiveU
  \/ \E r \in Replicas : CollectiveW(r)
  \/ \E u \in Movers : NextTimestep(u)

Spec == Init /\ [][Next]_vars

----------------------------------------------------------------------------
(* The exchange on every spatial decomposition: each replica assigns each  *)
(* atom to one of its shards independently of the other replicas; the      *)
(* slots of a shard are in ascending or descending id order; shards may    *)
(* hold the other atoms of their replica as ghosts; an atom may be lost    *)
(* from one replica.                                                       *)

Variants ==
  {<<"plain", 0>>, <<"reversed", 0>>, <<"ghosts", 0>>}
  \cup {<<"lost", r>> : r \in Replicas}

\* the ids of the set g as a sequence, ascending
RECURSIVE Ascending(_)
Ascending(g) ==
  IF g = {} THEN << >>
  ELSE LET m == CHOOSE x \in g : \A y \in g : x <= y
       IN <<m>> \o Ascending(g \ {m})

Reverse(q) == [i \in 1 .. Len(q) |-> q[Len(q) + 1 - i]]

\* the atoms replica r holds, and those its shard m owns
Held(r, variant) == IF variant = <<"lost", r>> THEN Ids \ {NAtoms} ELSE Ids
OwnedIds(owner, variant, u) ==
  {t \in Held(iworldOf(u), variant) : owner[iworldOf(u)][t] = meOf(u)}

\* the value replica r holds for atom t
SrcVal(r, t) == r * (NAtoms + 1) + t

InitComm ==
  /\ run = 0 /\ arg = Prefix /\ cfg = Defaults /\ stage = "new"
  /\ hostIdle /\ stepIdle /\ auxIdle
  /\ \E owner \in [Replicas -> [Ids -> Shards]], variant \in Variants :
       /\ tags = [u \in Procs |->
                    LET a == Ascending(OwnedIds(owner, variant, u))
                    IN IF variant[1] = "reversed" THEN Reverse(a) ELSE a]
       /\ ghost = [u \in Procs |->
                    IF variant[1] = "ghosts"
                    THEN Held(iworldOf(u), variant) \ OwnedIds(owner, variant, u)
                    ELSE {}]
  /\ src = [u \in Procs |->
              [i \in 1 .. Len(tags[u]) |-> SrcVal(iworldOf(u), tags[u][i])]]
  /\ buf_beads = [u \in Procs |->
                    [r \in Replicas |-> [i \in 1 .. Len(tags[u]) |-> Unwritten]]]
  /\ iplan = -1

NextComm == CommExec

SpecComm == InitComm /\ [][NextComm]_vars

----------------------------------------------------------------------------
(* The constructor on every fix command of at most MaxOpts options, each   *)
(* a keyword with a recognized or an unrecognized value.                   *)

EnumValues ==
  [method |-> {"pimd", "nmpimd", "cmd"},
   integrator |-> {"obabo", "baoab"},
   ensemble |-> {"nve", "nvt", "nph", "npt"},
   fmmode |-> {"physical", "normal"},
   thermostat |-> {"PILE_L", "PILE_G", "SVR"},
   barostat |-> {"MTTK", "BZP"},
   ti |-> {"MSTI", "SCTI"},
   fixcom |-> {"yes", "no"},
   map |-> {"yes", "no"}]

NumericKeywords ==
  {"fmass", "scale", "sp", "temp", "tau", "press", "taup", "model"}

Keywords == DOMAIN EnumValues \cup NumericKeywords

\* the words an option takes after its keyword
Arity(k) == IF k \in {"thermostat", "ti"} THEN 2 ELSE 1

Options ==
  {<<k, v>> : k \in {"method", "integrator", "ensemble", "fmmode", "barostat"},
              v \in {"bogus"}}
  \cup {<<"method", "nmpimd">>, <<"integrator", "baoab">>,
        <<"ensemble", "npt">>, <<"ensemble", "nvt">>,
        <<"fmmode", "normal">>, <<"barostat", "MTTK">>}
  \cup {<<k, v>> : k \in {"fixcom", "map"}, v \in {"yes", "no", "bogus"}}
  \cup {<<k, v, "1">> : k \in {"thermostat", "ti"}, v \in {"SVR", "MSTI"}}
  \cup {<<k, v>> : k \in {"fmass", "sp", "temp"}, v \in {"-1", "1"}}
  \cup {<<"tau", "-1">>, <<"taup", "-1">>, <<"press", "-1">>,
        <<"scale", "2">>, <<"model", "1">>}
  \cup {<<"fmass", "2">>, <<"taup", "0">>}
  \cup {<<"bogus", "1">>, <<"bogus">>}

OptionLists == UNION {[1 .. n -> Options] : n \in 0 .. MaxOpts}

ArgLists == {Prefix \o Flatten(ol) : ol \in OptionLists}

InitArgs ==
  /\ run = 0
  /\ arg \in ArgLists
  /\ cfg = Defaults
  /\ stage = "new"
  /\ hostIdle
  /\ commIdle
  /\ stepIdle
  /\ auxIdle

NextArgs == Construct

SpecArgs == InitArgs /\ [][NextArgs]_vars

----------------------------------------------------------------------------
(* Properties of the bead exchange (SpecComm).                             *)

Completed == iplan = size_plan

\* the shards of replica r that own the atom with id t
Owners(r, t) ==
  {q \in World(r) : \E j \in 1 .. Len(tags[q]) : tags[q][j] = t}

\* the source value the shard q holds for the atom with id t
ValueAt(q, t) == src[q][CHOOSE j \in 1 .. Len(tags[q]) : tags[q][j] = t]

\* C1: after comm_exec has completed on all processes, for every process,
\* every locally owned slot i (id t) and every replica r, the bead-buffer
\* entry of r at slot i is the source value of the shard of r that owns t,
\* whatever the assignment of atoms to shards in each replica.  (q, j
\* range over the owners and their slots.)
C1_ExchangeDelivers ==
  Completed =>
    \A q \in Procs : \A j \in 1 .. Len(tags[q]) :
      \A u \in Procs : \A i \in 1 .. Len(tags[u]) :
        tags[u][i] = tags[q][j] => buf_beads[u][iworldOf(q)][i] = src[q][j]

\* a completed exchange in which a process owns two atoms that another
\* replica has split between two of its shards, and received both
C1_Witness ==
  /\ Completed
  /\ \E u \in Procs : \E r \in Replicas \ {iworldOf(u)} :
       /\ Len(tags[u]) >= 2
       /\ \E q1, q2 \in World(r) :
            /\ q1 # q2
            /\ q1 \in Owners(r, tags[u][1])
            /\ q2 \in Owners(r, tags[u][2])
            /\ buf_beads[u][r][1] = ValueAt(q1, tags[u][1])
            /\ buf_beads[u][r][2] = ValueAt(q2, tags[u][2])

\* C2: if an id owned by the requesting process is owned by no shard of
\* some other replica, comm_exec does not complete normally (the entry is
\* never left unwritten by a completed call).
C2_UnmatchedIsFatal ==
  \A u \in Procs : \A i \in 1 .. Len(tags[u]) : \A r \in Replicas :
    Owners(r, tags[u][i]) = {} => ~Completed

----------------------------------------------------------------------------
(* The sub-steps of a timestep (Spec).                                     *)

\* the sub-steps of the integration scheme: the calls of these functions
\* from initial_integrate and final_integrate
SubStepFns ==
  {"o_step", "press_o_step", "press_v_step", "b_step", "nmpimd_transform",
   "qc_step", "a_step", "remove_com_motion"}

IsSubStep(op) ==
  /\ op.e
  /\ op.f \in SubStepFns
  /\ op.h \in {"initial_integrate", "final_integrate"}

SubStepName(op) ==
  CASE op.f = "o_step" -> "O"
    [] op.f = "press_o_step" -> "barostat_O"
    [] op.f = "press_v_step" -> "press_v"
    [] op.f = "b_step" -> "B"
    [] op.f = "qc_step" -> "drift"
    [] op.f = "a_step" -> "A"
    [] op.f = "remove_com_motion" -> "rmcom"
    [] op.f = "nmpimd_transform" -> op.d
    [] OTHER -> "none"

\* the calls of sub-steps in a program: position of the call, sub-step name
\* and handler, in program order
SubStepsOf(prog) ==
  LET at == SelectSeq([i \in 1 .. Len(prog) |-> i],
                      LAMBDA i : IsSubStep(prog[i]))
  IN [n \in 1 .. Len(at) |->
        [pos |-> at[n], name |-> SubStepName(prog[at[n]]), h |-> prog[at[n]].h]]

\* evaluated once per run and process
SubStepTable ==
  [r \in Runs |-> [u \in Procs |-> SubStepsOf(ProgTable[r][u][1])]]

\* the sub-steps process u has called so far in the current timestep
Called(u) ==
  IF step[u] = 0 THEN << >>
  ELSE SelectSeq(SubStepTable[run][u], LAMBDA e : e.pos < pc[u])

\* the handlers of a timestep in the order Verlet::run calls them
HandlerRank(h) ==
  CASE h = "initial_integrate" -> 1
    [] h = "host" -> 2
    [] h = "post_force" -> 3
    [] h = "final_integrate" -> 4
    [] OTHER -> 5

\* process u has left handler h of the current timestep
Past(u, h) ==
  /\ step[u] >= 1
  /\ AtEnd(u) \/ HandlerRank(CurOp(u).h) > HandlerRank(h)

\* for every run, process and position p of the timestep's
\* program, the number of calls of sub-steps with a name in names, made
\* from a handler in hs, that precede p
CallCounts(names, hs) ==
  [r \in Runs |-> [u \in Procs |->
     [p \in 1 .. (Len(ProgTable[r][u][1]) + 1) |->
        Len(SelectSeq(SubStepTable[r][u],
                      LAMBDA e : e.pos < p /\ e.name \in names /\ e.h \in hs))]]]

\* the sub-steps of the integration scheme proper (all but the removal of
\* the centre-of-mass motion)
AllKinds ==
  {"O", "barostat_O", "press_v", "B", "x_forward", "x_inverse", "drift", "A"}

Handlers == {"initial_integrate", "final_integrate"}

\* evaluated once: per handler, the names of the scheme's sub-steps in
\* program order, and how many of them precede each position
SchemeTable ==
  [r \in Runs |-> [u \in Procs |-> [h \in Handlers |->
     LET sel == SelectSeq(SubStepTable[r][u],
                          LAMBDA e : e.h = h /\ e.name \in AllKinds)
     IN [n \in 1 .. Len(sel) |-> sel[n].name]]]]

SchemeCalls == [h \in Handlers |-> CallCounts(AllKinds, {h})]
BarostatCalls == CallCounts({"press_v", "barostat_O"}, Handlers)
DriftCalls == CallCounts({"drift"}, Handlers)

\* the names of the scheme's sub-steps that process u has called in handler
\* h in the current timestep, in the order of the calls
Trace(u, h) ==
  IF step[u] = 0 THEN << >>
  ELSE SubSeq(SchemeTable[run][u][h], 1, SchemeCalls[h][run][u][pc[u]])

IsPrefix(s, t) == Len(s) <= Len(t) /\ s = SubSeq(t, 1, Len(s))

\* the trace t of a handler is a prefix of the sequence want, and is want
\* once the handler has returned
Follows(t, returned, want) == IsPrefix(t, want) /\ (returned => t = want)

Opt(b, s) == IF b THEN s ELSE << >>

\* the OBABO scheme, fix_dp_pimd.cpp:667-858 and 1001-1049, with the
\* thermostat sub-steps when thermo and the barostat sub-steps when baro
ObaboOrder(u, thermo, baro) ==
  /\ Follows(Trace(u, "initial_integrate"), Past(u, "initial_integrate"),
             Opt(thermo, <<"O">> \o Opt(baro, <<"barostat_O">>))
             \o Opt(baro, <<"press_v">>)
             \o <<"B", "x_forward", "drift", "A", "drift", "A", "x_inverse">>)
  /\ Follows(Trace(u, "final_integrate"), Past(u, "final_integrate"),
             Opt(baro, <<"press_v">>) \o <<"B">>
             \o Opt(thermo, <<"O">> \o Opt(baro, <<"barostat_O">>)))

ObaboRun == Running /\ cfg.integrator = "obabo" /\ cfg.method = "NMPIMD"
BaoabRun == Running /\ cfg.integrator = "baoab" /\ cfg.method = "NMPIMD"

\* C3 (as amended): with integrator obabo and method nmpimd every timestep
\* calls, in initial_integrate, O and barostat-O (only for the ensembles nvt
\* and npt; barostat-O only with a barostat), press_v_step (with a
\* barostat), B, the forward transform of x, drift, A, drift, A, the
\* inverse transform of x, and in final_integrate press_v_step (with a
\* barostat), B, then O and barostat-O under the same conditions; in this
\* order and no other.
C3_ObaboOrder ==
  ObaboRun =>
    \A u \in Procs : ObaboOrder(u, Thermostatted(cfg), cfg.pextflag = 1)

\* a process that has finished an OBABO timestep with a barostat and
\* without thermostat (nph): neither O nor barostat-O was called
C3_Witness ==
  /\ ObaboRun /\ cfg.ensemble = "nph"
  /\ \E u \in Procs :
       /\ step[u] >= 1 /\ AtEnd(u)
       /\ Trace(u, "initial_integrate")
            = <<"press_v", "B", "x_forward", "drift", "A", "drift", "A",
                "x_inverse">>
       /\ Trace(u, "final_integrate") = <<"press_v", "B">>

\* C3 as stated: the same order with O called in every ensemble and
\* barostat-O whenever a barostat is active.
C3_ObaboOrderAsStated ==
  ObaboRun => \A u \in Procs : ObaboOrder(u, TRUE, cfg.pextflag = 1)

\* the BAOAB scheme, fix_dp_pimd.cpp:860-883 and 1001-1049, restricted to
\* the sub-steps of the set kinds
BaoabOrder(u, kinds, thermo, baro) ==
  LET Only(q) == SelectSeq(q, LAMBDA n : n \in kinds) IN
  /\ Follows(Only(Trace(u, "initial_integrate")), Past(u, "initial_integrate"),
             Only(Opt(baro, <<"press_v">>)
                  \o <<"B", "x_forward", "drift", "A">>
                  \o Opt(thermo, <<"O">> \o Opt(baro, <<"barostat_O">>))
                  \o <<"drift", "A", "x_inverse">>))
  /\ Follows(Only(Trace(u, "final_integrate")), Past(u, "final_integrate"),
             Only(Opt(baro, <<"press_v">>) \o <<"B">>))

\* C4 (as amended): with integrator baoab and method nmpimd every timestep
\* calls in initial_integrate press_v_step (with a barostat), B, the
\* forward transform of x, drift, A, then O (only for the ensembles nvt
\* and npt, followed by barostat-O with a barostat), drift, A, the inverse
\* transform of x; final_integrate calls press_v_step (with a barostat)
\* and B, and no O.  O runs once per timestep, between the two A, for nvt
\* and npt, and not at all for nve and nph.
C4_BaoabOrder ==
  BaoabRun =>
    \A u \in Procs :
      BaoabOrder(u, AllKinds, Thermostatted(cfg), cfg.pextflag = 1)

\* a process that has finished a BAOAB timestep of the ensemble nve, in
\* which O was not called
C4_Witness ==
  /\ BaoabRun /\ cfg.ensemble = "nve"
  /\ \E u \in Procs :
       /\ step[u] >= 1 /\ AtEnd(u)
       /\ Trace(u, "initial_integrate")
            = <<"B", "x_forward", "drift", "A", "drift", "A", "x_inverse">>
       /\ Trace(u, "final_integrate") = <<"B">>

\* C4 as stated: B, forward transform, drift, A, O, drift, A, inverse
\* transform in initial_integrate and B alone in final_integrate, with O
\* exactly once in every timestep.
C4_BaoabOrderAsStated ==
  BaoabRun =>
    \A u \in Procs :
      BaoabOrder(u, AllKinds \ {"press_v", "barostat_O"}, TRUE, FALSE)

----------------------------------------------------------------------------
(* The barostat, the box and the blocking operations (Spec).               *)

\* process u is inside a call of one of the functions fns: it has executed
\* the first operation of the call and not yet the last
Inside(u, fns) == ~AtEnd(u) /\ CurOp(u).f \in fns /\ ~CurOp(u).e

\* the number of calls process u has completed in the current timestep
\* according to the table counts (calls of the functions fns); -1 while it
\* is inside such a call or has not started the first timestep
CallsDone(u, counts, fns) ==
  IF step[u] >= 1 /\ ~Inside(u, fns) THEN counts[run][u][pc[u]] ELSE -1

\* no two processes that have completed the same calls of the same timestep
\* hold different values val
AgreeAfter(counts, fns, val) ==
  \A u \in Procs : \A d \in {CallsDone(u, counts, fns)} :
    d >= 0 =>
      \A q \in Procs :
        val[q] # val[u] =>
          ~(step[q] = step[u] /\ CallsDone(q, counts, fns) = d)

\* C5: after every barostat sub-step (press_v_step, press_o_step) all
\* processes of the grid hold the same piston velocity vw, the value that
\* grid rank 0 (q = 0) holds after that sub-step; no process goes on with
\* a vw of its own that differs from it.
C5_PistonShared ==
  Running /\ cfg.pextflag = 1 =>
    AgreeAfter(BarostatCalls, {"press_v_step", "press_o_step"}, vw)

\* all processes have returned from the first press_v_step of a timestep
\* under the BZP barostat; replica 0 has added its force term, and a
\* process of another replica holds the value of rank 0
C5_Witness ==
  /\ Running /\ cfg.pextflag = 1 /\ cfg.barostat = "BZP"
  /\ \A u \in Procs :
       /\ step[u] >= 1
       /\ BarostatCalls[run][u][pc[u]] = 1
       /\ ~Inside(u, {"press_v_step", "press_o_step"})
  /\ est[0].dvw # 0
  /\ vw[NP * NS - 1] = vw[0]
  /\ vw[0] # 0

\* C6: with a barostat active, after every centroid drift (qc_step) the
\* box lengths xprd, yprd, zprd and the box bounds are the same on every
\* shard of every replica, and the box lengths of a replica other than
\* replica 0 change only by receiving the broadcast value.
C6_BoxAgrees ==
  Running /\ cfg.pextflag = 1 =>
    AgreeAfter(DriftCalls, {"qc_step"}, domain)

C6_NoLocalScaling ==
  \A u \in Procs :
    (iworldOf(u) # 0 /\ domain'[u] # domain[u]) =>
       (CurOp(u).f = "qc_step" /\ (CurOp(u).k = "bcast" \/ CurOp(u).d = "set_box"))

C6_BoxShared == []C6_BoxAgrees /\ [][C6_NoLocalScaling]_vars

\* all processes have returned from a drift under BZP in which replica 0
\* scaled its box by a nonzero piston velocity, and the last process of
\* the grid holds the box of rank 0
C6_Witness ==
  /\ Running /\ cfg.pextflag = 1 /\ cfg.barostat = "BZP"
  /\ \A u \in Procs :
       /\ step[u] >= 1
       /\ DriftCalls[run][u][pc[u]] >= 1
       /\ ~Inside(u, {"qc_step"})
  /\ domain[0].xprd # domain0.xprd
  /\ domain[NP * NS - 1] = domain[0]

\* the operation a group is about to complete is the same on all members
SameOperation(g) ==
  \E op \in {CurOp(Root(g))} :
    \A q \in g : \E mine \in {CurOp(q)} :
      mine.f = op.f /\ mine.d = op.d /\ mine.h = op.h

AllDone == \A u \in Procs : AtEnd(u) /\ step[u] = MaxSteps

CanMove ==
  \/ \E u \in Procs : Movable(u)
  \/ Arrived(Procs, "U")
  \/ \E r \in Replicas : Arrived(World(r), "W")

\* C7: in every configuration the processes execute the same sequence of
\* blocking operations: an operation on the grid communicator is entered
\* by all processes, an operation on a replica's communicator by all
\* shards of the replica, at the same call; so setup and every timestep
\* run to completion and no process waits for a partner that skipped the
\* operation.
C7_NoProcessWaitsForever ==
  Running =>
    /\ AllDone \/ CanMove
    /\ Arrived(Procs, "U") => SameOperation(Procs)
    /\ \A r \in Replicas : Arrived(World(r), "W") => SameOperation(World(r))

\* all processes have run setup and MaxSteps timesteps to the end, with
\* the PILE_G thermostat (replica 0 rescales over world, the others do not)
\* and the BZP barostat
C7_Witness ==
  /\ Running /\ AllDone
  /\ cfg.thermostat = "PILE_G" /\ cfg.ensemble = "npt" /\ cfg.barostat = "BZP"

----------------------------------------------------------------------------
(* Removal of the centre-of-mass motion (Spec).                            *)

\* the names of all sub-steps process u has called in the current
\* timestep, in the order of the calls
CalledNames(u) == [n \in 1 .. Len(Called(u)) |-> Called(u)[n].name]

\* the sub-steps that change velocities (b_step, o_step) and those that
\* read them (qc_step and a_step propagate with v, b_step and o_step
\* update v)
VelocityChanging == {"B", "O"}
VelocityReading == {"drift", "A", "B", "O"}

\* C8: when the removal of the centre-of-mass motion is enabled, every B
\* and every O, in both schemes and both handlers, is followed by a call
\* of remove_com_motion before the next sub-step that reads velocities.
C8_ComRemovedAfterEveryKick ==
  Running /\ cfg.removecomflag = 1 =>
    \A u \in Procs : \A t \in {CalledNames(u)} :
      \A i, j \in 1 .. Len(t) :
        (i < j /\ t[i] \in VelocityChanging /\ t[j] \in VelocityReading)
          => \E k \in (i + 1) .. (j - 1) : t[k] = "rmcom"

\* the value the fix command gives for the keyword fixcom
FixcomIs(v) ==
  \E i \in 1 .. (Len(arg) - 1) : arg[i] = "fixcom" /\ arg[i + 1] = v

\* C9: fixcom yes enables the removal of the centre-of-mass motion during
\* integration and fixcom no disables it: a process that has finished a
\* timestep has called remove_com_motion exactly if the value was yes.
C9_FixcomYesEnables ==
  Running =>
    \A u \in Procs :
      (step[u] >= 1 /\ AtEnd(u)) =>
        (FixcomIs("yes") <=>
           \E n \in 1 .. Len(Called(u)) : Called(u)[n].name = "rmcom")

----------------------------------------------------------------------------
(* Rejection of unknown words by the constructor (SpecArgs).               *)

\* the fix command a (1-based, options from word 4) holds a word that is
\* no keyword, or a value of an enumerated keyword that is none of its
\* values
RECURSIVE HasUnrecognized(_, _)
HasUnrecognized(a, i) ==
  IF i > Len(a) THEN FALSE
  ELSE IF a[i] \notin Keywords THEN TRUE
  ELSE IF /\ a[i] \in DOMAIN EnumValues
          /\ i + 1 <= Len(a)
          /\ a[i + 1] \notin EnumValues[a[i]] THEN TRUE
  ELSE HasUnrecognized(a, i + 1 + Arity(a[i]))

\* C10: every unrecognized keyword and every unrecognized value of an
\* enumerated option makes the constructor abort with a fatal error; none
\* is silently accepted.
C10_UnrecognizedAborts ==
  (stage # "new" /\ HasUnrecognized(arg, 4)) => stage = "failed"

----------------------------------------------------------------------------
(* Validation of the numeric options by the constructor (SpecArgs).        *)

\* the fix command gives keyword k a value whose number satisfies bad
GivesValue(k, bad(_)) ==
  \E i \in 4 .. (Len(arg) - 1) : arg[i] = k /\ bad(Atof(arg[i + 1]))

OutsideUnit(x) == x < 0 \/ x > 1
NotPositive(x) == x <= 0

\* C11: a fictitious-mass ratio outside [0,1], a friction time tau that is
\* not greater than 0 and a barostat relaxation time taup that is not
\* greater than 0 each make the constructor abort with a fatal error.
C11_RangesValidated ==
  (/\ stage # "new"
   /\ \/ GivesValue("fmass", OutsideUnit)
      \/ GivesValue("tau", NotPositive)
      \/ GivesValue("taup", NotPositive))
    => stage = "failed"

----------------------------------------------------------------------------
(* init without an atom map.                                               *)

\* process u has executed an operation of init after the map test, or is
\* in a timestep
BuiltAnything(u) == step[u] > 0 \/ pc[u] > 1

\* the run has no atom map and its processes are about to enter init
EntersInitWithoutMap ==
  map_style = NoMap /\ stage = "constructed" /\ \A u \in Procs : pc[u] = 1

C12_NothingBuilt == map_style = NoMap => \A u \in Procs : ~BuiltAnything(u)
C12_InitFails == EntersInitWithoutMap => stage' = "failed"

\* C12: with map style 0 init fails with a fatal error before the
\* communication plan, the normal-mode matrices or the thermostat are
\* built: the first step of init is the failure, no process executes any
\* later operation of init, and none enters setup or a timestep.
C12_NoMapIsFatal == []C12_NothingBuilt /\ [][C12_InitFails]_vars

C12_Witness ==
  map_style = NoMap /\ stage = "failed" /\ cfg.err = "none"
  /\ cfg.pextflag = 1 /\ cfg.integrator = "baoab"

----------------------------------------------------------------------------
(* comm_init on every partition of the universe into worlds (SpecGrid):    *)
(* world r has layout[r + 1] processes and universe ranks are given to the *)
(* worlds in order, as the host engine's -partition switch does.           *)

Layouts == UNION {[1 .. n -> 1 .. (NS + 1)] : n \in 1 .. (NP + 1)}

RECURSIVE SumTo(_, _)
SumTo(g, n) == IF n = 0 THEN 0 ELSE g[n] + SumTo(g, n - 1)

\* universe->nprocs, universe->nworlds, universe->root_proc[r]
universe_nprocs(g) == SumTo(g, Len(g))
universe_nworlds(g) == Len(g)
root_proc(g, r) == SumTo(g, r)

\* universe->iworld and comm->me of the process with universe rank u
universe_iworld(g, u) ==
  CHOOSE r \in 0 .. (Len(g) - 1) :
    root_proc(g, r) <= u /\ u < root_proc(g, r + 1)
comm_me(g, u) == u - root_proc(g, universe_iworld(g, u))
comm_nprocs(g, u) == g[universe_iworld(g, u) + 1]

\* comm_init with the receive partner taken from the replica the process
\* sends to
comm_init_recv_forward(g, u) ==
  LET nw == universe_nworlds(g)
      nc == comm_nprocs(g, u)
      iw == universe_iworld(g, u)
      me == comm_me(g, u)
      written == 0 .. ((nw - 1) * nc - 1)
  IN [size_plan |-> universe_nprocs(g) - nc,
      plan_send |-> [k \in written |->
                      ((iw + (k \div nc) + 1) % nw) * nc + ((me + (k % nc)) % nc)],
      plan_recv |-> [k \in written |->
                      ((iw + (k \div nc) + 1) % nw) * nc
                        + ((me - (k % nc) + nc) % nc)],
      mode_index |-> [k \in written |-> (iw + (k \div nc) + 1) % nw]]

\* fix_dp_pimd.cpp:2053-2068 on the process with universe rank u: the
\* size the three arrays are allocated with and the entries the loops
\* write, by index i*ncomms + j
comm_init(g, u) ==
  LET nw == universe_nworlds(g)
      nc == comm_nprocs(g, u)
      iw == universe_iworld(g, u)
      me == comm_me(g, u)
      written == 0 .. ((nw - 1) * nc - 1)
  IN [size_plan |-> universe_nprocs(g) - nc,
      plan_send |-> [k \in written |->
                      ((iw + (k \div nc) + 1) % nw) * nc + ((me + (k % nc)) % nc)],
      plan_recv |-> [k \in written |->
                      ((iw - (k \div nc) - 1 + nw) % nw) * nc
                        + ((me - (k % nc) + nc) % nc)],
      mode_index |-> [k \in written |-> (iw + (k \div nc) + 1) % nw]]

GridProcs == IF layout = << >> THEN {} ELSE 0 .. (universe_nprocs(layout) - 1)

\* init reaches comm_init on process u; the processes share nothing and
\* are taken in rank order
CommInit(u) ==
  /\ Running
  /\ plan[u] = << >>
  /\ \A q \in GridProcs : q < u => plan[q] # << >>
  /\ plan' = [plan EXCEPT ![u] = <<comm_init(layout, u)>>]
  /\ UNCHANGED <<ctorVars, hostVars, commVars, stepVars, layout, nmVars,
                 oneVars, bufVars, trVars, subVars, runVars>>

InitGrid ==
  /\ run = 0 /\ arg = Prefix /\ cfg = Defaults /\ stage = "constructed"
  /\ hostIdle /\ commIdle /\ stepIdle
  /\ layout \in Layouts
  /\ plan = [u \in 0 .. (universe_nprocs(layout) - 1) |-> << >>]
  /\ nmIdle /\ oneIdle /\ bufIdle /\ trIdle /\ subIdle /\ runIdle

NextGrid == \E u \in GridProcs : CommInit(u)

SpecGrid == InitGrid /\ [][NextGrid]_vars

\* the worlds do not all have the same number of processes
Inconsistent(g) == \E r, q \in 1 .. Len(g) : g[r] # g[q]

\* the plan of process u names a rank that is not in the universe, or
\* writes an entry beyond the size the arrays were allocated with
PlanBroken(u) ==
  /\ plan[u] # << >>
  /\ \E p \in {plan[u][1]} :
       \/ \E k \in DOMAIN p.plan_send :
            k >= p.size_plan \/ p.plan_send[k] \notin GridProcs
       \/ \E k \in 0 .. (p.size_plan - 1) : k \notin DOMAIN p.plan_send

\* C13: on a process grid whose replicas do not all have the same number
\* of shards, init builds no communication plan from the local shard
\* count: no process leaves comm_init with a plan.
C13_InconsistentGridIsFatal ==
  (layout # << >> /\ Inconsistent(layout))
    => \A u \in GridProcs : plan[u] = << >>

----------------------------------------------------------------------------
(* The normal modes: nmpimd_init and nmpimd_transform (SpecNm).            *)
(* The numbers of this part are exact: an element a + b*sqrt(2) +          *)
(* c*sqrt(3) + d*sqrt(6) of the ring Z[sqrt 2, sqrt 3] is the tuple        *)
(* <<a, b, c, d>>.  The sines, cosines and square roots nmpimd_init takes  *)
(* lie in that ring (up to the stated factor) when the number of replicas  *)
(* divides 12; the rounding of the double arithmetic is not modelled.      *)

Beads == {1, 2, 3, 4, 6}

SInt(n) == <<n, 0, 0, 0>>
Sqrt2 == <<0, 1, 0, 0>>
SAdd(p, q) == <<p[1] + q[1], p[2] + q[2], p[3] + q[3], p[4] + q[4]>>
SNeg(p) == <<-p[1], -p[2], -p[3], -p[4]>>
SMul(p, q) ==
  <<p[1] * q[1] + 2 * p[2] * q[2] + 3 * p[3] * q[3] + 6 * p[4] * q[4],
    p[1] * q[2] + p[2] * q[1] + 3 * (p[3] * q[4] + p[4] * q[3]),
    p[1] * q[3] + p[3] * q[1] + 2 * (p[2] * q[4] + p[4] * q[2]),
    p[1] * q[4] + p[4] * q[1] + p[2] * q[3] + p[3] * q[2]>>

\* 2*sin(m*pi/12) for the angles that are multiples of pi/6 or of pi/4
TwoSin12(m) ==
  LET r == m % 12
      a == CASE r = 0 -> SInt(0)
             [] r = 2 \/ r = 10 -> SInt(1)
             [] r = 3 \/ r = 9 -> Sqrt2
             [] r = 4 \/ r = 8 -> <<0, 0, 1, 0>>
             [] r = 6 -> SInt(2)
  IN IF (m % 24) < 12 THEN a ELSE SNeg(a)

\* 2*sin(i*pi/n), 2*sin(2*pi*k/n) and 2*cos(2*pi*k/n), n a divisor of 12
TwoSin(i, n) == TwoSin12((12 \div n) * i)
TwoSinTurn(k, n) == TwoSin12((24 \div n) * k)
TwoCos(k, n) == TwoSin12((24 \div n) * k + 6)

\* 12/sqrt(n)
TwelveOverSqrt(n) ==
  CASE n = 1 -> SInt(12)
    [] n = 2 -> <<0, 6, 0, 0>>
    [] n = 3 -> <<0, 0, 4, 0>>
    [] n = 4 -> SInt(6)
    [] n = 6 -> <<0, 0, 0, 2>>

\* (-1)^i
PowMinus1(i) == IF i % 2 = 0 THEN 1 ELSE -1

\* the content of a matrix entry that was never assigned
Unassigned == << >>

\* fix_dp_pimd.cpp:1912-1915; lam[i] = 4*sin(i*pi/np)^2
lam_full_angle(n, i) == SMul(TwoSin(2 * i, n), TwoSin(2 * i, n))
lam_of(n, i) == SMul(TwoSin(i, n), TwoSin(i, n))

\* The entries of M_x2xp are held in units of 1/24:
\* 24 * sqrt(2) * cos(2*pi*i*j/np) / sqrt(np), and with sin
cosEntry(n, i, j) == SMul(SMul(Sqrt2, TwoCos(i * j, n)), TwelveOverSqrt(n))
sinEntry(n, i, j) == SMul(SMul(Sqrt2, TwoSinTurn(i * j, n)), TwelveOverSqrt(n))
\* 24 * 1/sqrt(np) and 24 * 1/sqrt(np) * pow(-1, i)
constEntry(n) == SMul(SInt(2), TwelveOverSqrt(n))
altEntry(n, i) == SMul(SInt(2 * PowMinus1(i)), TwelveOverSqrt(n))

\* fix_dp_pimd.cpp:1922-1937: the loops over the degenerate modes write
\* the rows 1 .. np/2 and np/2+1 .. np-1 of the matrix memory->create
\* allocated
degenerate(n) ==
  [i \in 0 .. (n - 1) |-> [j \in 0 .. (n - 1) |->
     IF 1 <= i /\ i < (n \div 2) + 1 THEN cosEntry(n, i, j)
     ELSE IF (n \div 2) + 1 <= i /\ i < n THEN sinEntry(n, i, j)
     ELSE Unassigned]]

\* fix_dp_pimd.cpp:1940-1946: the loop over the non-degenerate modes
\* then writes row 0 and, for even np, row np/2
nondegenerate_row0(n, M) ==
  [i \in 0 .. (n - 1) |-> [j \in 0 .. (n - 1) |->
     IF i = 0 THEN constEntry(n) ELSE M[i][j]]]
nondegenerate(n, M) ==
  [i \in 0 .. (n - 1) |-> [j \in 0 .. (n - 1) |->
     IF n % 2 = 0 /\ i = n \div 2 THEN altEntry(n, j)
     ELSE IF i = 0 THEN constEntry(n)
     ELSE M[i][j]]]

\* fix_dp_pimd.cpp:1950-1954
copied(n, M) == M
transposed(n, M) == [i \in 0 .. (n - 1) |-> [j \in 0 .. (n - 1) |-> M[j][i]]]

\* fix_dp_pimd.cpp:1977-1990: mass[1] on replica iworld
mass_scaled_on_centroid(n, iworld, c, m) ==
  SMul(SInt(m * c.fmass),
       IF c.fmmode = "normal" THEN lam_of(n, iworld) ELSE SInt(1))
mass_of(n, iworld, c, m) ==
  IF iworld # 0
  THEN SMul(SInt(m * c.fmass),
            IF c.fmmode = "normal" THEN lam_of(n, iworld) ELSE SInt(1))
  ELSE SInt(m)

\* fix_dp_pimd.cpp:1901-1991 on replica iworld
nmpimd_init(n, iworld, c, m) ==
  LET M == nondegenerate(n, degenerate(n))
  IN [lam |-> [i \in 0 .. (n - 1) |-> lam_of(n, i)],
      M_x2xp |-> M,
      M_xp2x |-> transposed(n, M),
      mass |-> mass_of(n, iworld, c, m)]

\* fix_dp_pimd.cpp:2003-2017 for one coordinate: from[j] is the value of
\* replica j in buf_beads
RECURSIVE DotFrom(_, _, _, _)
DotFrom(from, vector, j, n) ==
  IF j >= n THEN SInt(0)
  ELSE SAdd(SMul(from[j], vector[j]), DotFrom(from, vector, j + 1, n))
nmpimd_transform_value(from, vector) == DotFrom(from, vector, 0, np)

NmReplicas == 0 .. (np - 1)
NmBuilt == \A k \in NmReplicas : nm[k] # << >>

\* init calls nmpimd_init on replica k
NmpimdInit(k) ==
  /\ nm[k] = << >>
  /\ \A q \in NmReplicas : q < k => nm[q] # << >>
  /\ nm' = [nm EXCEPT ![k] = <<nmpimd_init(np, k, cfg, atom_mass)>>]
  /\ UNCHANGED <<ctorVars, hostVars, commVars, stepVars, gridVars, np,
                 atom_mass, x0, xbead, ntransf, oneVars, bufVars, trVars,
                 subVars, runVars>>

\* fix_dp_pimd.cpp:557-575: comm_exec gathers the coordinate of every
\* replica, then replica k transforms with row k of the matrix: M_x2xp
\* in the first call, M_xp2x in the second
Transform ==
  /\ NmBuilt
  /\ ntransf < 2
  /\ xbead' = [k \in NmReplicas |->
                nmpimd_transform_value(xbead,
                  IF ntransf = 0 THEN nm[k][1].M_x2xp[k]
                  ELSE nm[k][1].M_xp2x[k])]
  /\ ntransf' = ntransf + 1
  /\ UNCHANGED <<ctorVars, hostVars, commVars, stepVars, gridVars, np,
                 atom_mass, nm, x0, oneVars, bufVars, trVars, subVars, runVars>>

Coords == {-1, 2}
Masses == {1, 3}

InitNm ==
  /\ run = 0 /\ arg = Prefix /\ stage = "constructed"
  /\ \E f \in {"physical", "normal"}, r \in {0, 1} :
       cfg = [Defaults EXCEPT !.fmmode = f, !.fmass = r]
  /\ hostIdle /\ commIdle /\ stepIdle /\ gridIdle /\ oneIdle /\ bufIdle
  /\ trIdle /\ subIdle /\ runIdle
  /\ np \in Beads
  /\ atom_mass \in Masses
  /\ nm = [k \in NmReplicas |-> << >>]
  /\ x0 \in [NmReplicas -> Coords]
  /\ xbead = [k \in NmReplicas |-> SInt(x0[k])]
  /\ ntransf = 0

NextNm == (\E k \in NmReplicas : NmpimdInit(k)) \/ Transform

SpecNm == InitNm /\ [][NextNm]_vars

\* C14: the eigenvalues nmpimd_init builds satisfy lam[0] = 0,
\* lam[P/2] = 4 when P is even, lam[k] = lam[P-k] for 0 < k < P, and for
\* P = 4 they are 0, 2, 4, 2.
C14_Eigenvalues ==
  \A r \in NmReplicas : nm[r] # << >> =>
    \E lam \in {nm[r][1].lam} :
      /\ lam[0] = SInt(0)
      /\ np % 2 = 0 => lam[np \div 2] = SInt(4)
      /\ \A k \in 1 .. (np - 1) : lam[k] = lam[np - k]
      /\ np = 4 => lam = [k \in 0 .. 3 |-> SInt(IF k = 0 THEN 0 ELSE IF k = 2 THEN 4 ELSE 2)]

C14_Witness == np = 4 /\ NmBuilt /\ nm[3][1].lam[3] = SInt(2)


\* the formula of the class of row k of the forward matrix, entry j
ClassEntry(n, k, j) ==
  CASE k = 0 -> constEntry(n)
    [] k # 0 /\ 2 * k = n -> altEntry(n, j)
    [] 1 <= k /\ 2 * k < n -> cosEntry(n, k, j)
    [] 2 * k > n -> sinEntry(n, k, j)

\* C15: after nmpimd_init every row k of the forward matrix holds exactly
\* the formula of its class (row 0 constant, row P/2 alternating for even
\* P, cosine rows below P/2, sine rows above), no entry is unassigned, and
\* M_xp2x[i][j] = M_x2xp[j][i] for all i, j.
C15_MatrixRows ==
  \A r \in NmReplicas : nm[r] # << >> =>
    \A k, j \in NmReplicas :
      /\ nm[r][1].M_x2xp[k][j] # Unassigned
      /\ nm[r][1].M_x2xp[k][j] = ClassEntry(np, k, j)
      /\ nm[r][1].M_xp2x[k][j] = nm[r][1].M_x2xp[j][k]

C15_Witness ==
  /\ np = 6 /\ NmBuilt
  /\ nm[5][1].M_x2xp[3][1] = <<0, 0, 0, -4>>
  /\ nm[5][1].M_x2xp[1][1] # nm[5][1].M_x2xp[5][1]


\* rows k and l of the forward matrix of replica r are orthonormal (the
\* entries are in units of 1/24, their products in units of 1/576)
Orthonormal(r, k, l) ==
  DotFrom(nm[r][1].M_x2xp[k], nm[r][1].M_x2xp[l], 0, np)
    = SInt(IF k = l THEN 576 ELSE 0)

\* C16: for P >= 2 the rows of the forward matrix are pairwise
\* orthonormal, and the forward transform on all replicas followed by the
\* inverse transform on all replicas returns every replica's original value.
C16_RoundTrip ==
  np >= 2 =>
    /\ \A r \in NmReplicas : nm[r] # << >> =>
         \A k, l \in NmReplicas : Orthonormal(r, k, l)
    /\ ntransf = 2 => \A k \in NmReplicas : xbead[k] = SInt(576 * x0[k])

C16_Witness ==
  /\ np = 3 /\ ntransf = 2
  /\ x0 = [k \in 0 .. 2 |-> IF k = 1 THEN 2 ELSE -1]
  /\ xbead[1] = SInt(1152)


\* C17: the mass the integrator uses on replica 0 is the physical mass for
\* every fmass and every mass mode; on a replica k > 0 it is physical mass
\* * fmass in physical mode and physical mass * lam[k] * fmass in normal
\* mode.
C17_Masses ==
  \A k \in NmReplicas : nm[k] # << >> =>
    nm[k][1].mass =
      IF k = 0 THEN SInt(atom_mass)
      ELSE IF cfg.fmmode = "physical" THEN SInt(atom_mass * cfg.fmass)
      ELSE SMul(SInt(atom_mass * cfg.fmass), nm[k][1].lam[k])

C17_Witness ==
  /\ np = 4 /\ NmBuilt /\ atom_mass = 3
  /\ cfg.fmmode = "normal" /\ cfg.fmass = 1
  /\ nm[0][1].mass = SInt(3) /\ nm[1][1].mass = SInt(6)

----------------------------------------------------------------------------
(* A timestep of a run with one replica and one shard (SpecOne): the       *)
(* universe has the single process 0, init has built the plan and the      *)
(* matrices, and the process executes the operations of a timestep.  The   *)
(* two atoms have one coordinate; as for the estimators, unit factors are  *)
(* 1, and x is the unwrapped position (domain->unmap and unmap_inv change  *)
(* its representation only).                                               *)

OneLayout == <<1>>

\* fix_dp_pimd.cpp:1682-1694: the rotation of position and velocity
a_step_every_replica(iworld, a) ==
  [a EXCEPT !.x = [i \in 1 .. 2 |-> a.x[i] + a.v[i]],
            !.v = [i \in 1 .. 2 |-> a.v[i] - a.x[i]]]
a_step_effect(iworld, a) ==
  IF iworld # 0
  THEN [a EXCEPT !.x = [i \in 1 .. 2 |-> a.x[i] + a.v[i]],
                 !.v = [i \in 1 .. 2 |-> a.v[i] - a.x[i]]]
  ELSE a

\* fix_dp_pimd.cpp:2008-2015 on the values q of the atoms of the only
\* replica; vector is the row of the matrix, in units of 1/24
transform_one(q, vector) ==
  [i \in 1 .. 2 |->
     DotFrom([j \in {0} |-> SInt(q[i])], vector, 0, 1)[1] \div 24]

\* group->vcm for atoms of equal mass
vcm(a) == (a.v[1] + a.v[2]) \div 2

\* fix_dp_pimd.cpp:1553-1563: the drift without a barostat
qc_drift_every_replica(iworld, a) ==
  [a EXCEPT !.x = [i \in 1 .. 2 |-> a.x[i] + a.v[i]]]
qc_drift(iworld, a) ==
  IF iworld = 0 THEN [a EXCEPT !.x = [i \in 1 .. 2 |-> a.x[i] + a.v[i]]]
  ELSE a

\* fix_dp_pimd.cpp:1298-1305: the friction and noise coefficients of
\* mode k (the unit factor 1 for the centroid mode)
c1_k(k) == k + 1
c2_k(k) == 2 * k + 1

\* what the operation op does to the atoms of replica iworld; w is the
\* piston velocity and r the numbers random->gaussian() returns
ParticleEffect(op, iworld, a, w, r) ==
  CASE op.f = "b_step" -> [a EXCEPT !.v = [i \in 1 .. 2 |-> a.v[i] + a.f[i]]]
    [] op.f = "qc_step" /\ op.d = "drift" -> qc_drift(iworld, a)
    [] op.f = "qc_step" /\ op.d = "drift_scale" ->
         IF iworld = 0 /\ cfg.barostat = "BZP"
         THEN [a EXCEPT !.x = [i \in 1 .. 2 |-> a.x[i] + w + a.v[i]],
                        !.v = [i \in 1 .. 2 |-> a.v[i] - w]]
         ELSE a
    [] op.f = "a_step" -> a_step_effect(iworld, a)
    [] op.f = "o_step" /\ op.d = "langevin" ->
         [a EXCEPT !.v = [i \in 1 .. 2 |->
                            c1_k(iworld) * a.v[i] + c2_k(iworld) * r[i]]]
    [] op.f = "svr_step" /\ op.d = "noise" -> [a EXCEPT !.ksi0 = r[1]]
    [] op.f = "svr_step" /\ op.d = "alpha" -> [a EXCEPT !.alpha = a.ksi0]
    [] op.f = "svr_step" /\ op.d = "scale" ->
         [a EXCEPT !.v = [i \in 1 .. 2 |-> a.alpha * a.v[i]]]
    [] op.f = "remove_com_motion" /\ op.d = "subtract" ->
         [a EXCEPT !.v = [i \in 1 .. 2 |-> a.v[i] - vcm(a)]]
    [] op.f = "nmpimd_transform" /\ op.d = "x_forward" ->
         [a EXCEPT !.x = transform_one(a.x, nm[iworld][1].M_x2xp[iworld])]
    [] op.f = "nmpimd_transform" /\ op.d = "x_inverse" ->
         [a EXCEPT !.x = transform_one(a.x, nm[iworld][1].M_xp2x[iworld])]
    [] op.f = "nmpimd_transform" /\ op.d = "v_forward" ->
         [a EXCEPT !.v = transform_one(a.v, nm[iworld][1].M_x2xp[iworld])]
    [] op.f = "nmpimd_transform" /\ op.d = "f_forward" ->
         [a EXCEPT !.f = transform_one(a.f, nm[iworld][1].M_x2xp[iworld])]
    [] op.f = "host_force" -> [a EXCEPT !.f = [i \in 1 .. 2 |-> -2 * a.x[i]]]
    [] OTHER -> a

\* the operations that call random->gaussian(), and what it returns
OneDraws(op) ==
  \/ Draws(op, 0)
  \/ op.f = "o_step" /\ op.d = "langevin"
  \/ op.f = "svr_step" /\ op.d = "noise"
OneDrawn ==
  IF cfg.seed = Indet THEN [1 .. 2 -> Gauss]
  ELSE {[i \in 1 .. 2 |-> gaussian(cfg.seed, est[0].random + i - 1)]}

\* what the operation op leaves in vw, domain and est of process 0: a
\* reduction or broadcast over one process returns the process's own value
OneState(op, r) ==
  IF op.k = "local" THEN LocalEffect(op, 0, PState(0), r[1])
  ELSE [vw |-> CollVw(op, 0, Buffer(op.d, 0)),
        domain |-> CollDomain(op, 0, Buffer(op.d, 0)),
        est |-> CollEst(op, 0, Operand(op.d, 0), Buffer(op.d, 0))]

\* fix_dp_pimd.cpp:2175-2247: five MPI_Sendrecv per entry of the plan
Sendrecvs(op) == IF op.f = "comm_exec" THEN 5 * plan[0][1].size_plan ELSE 0

\* process 0 executes its next operation
OneStep ==
  /\ Running /\ ~AtEnd(0)
  /\ \E op \in {CurOp(0)} :
     \E r \in (IF OneDraws(op) THEN OneDrawn ELSE {<<0, 0>>}) :
     \E st \in {OneState(op, r)} :
       /\ vw' = [vw EXCEPT ![0] = st.vw]
       /\ domain' = [domain EXCEPT ![0] = st.domain]
       /\ est' = [est EXCEPT ![0] =
                    IF OneDraws(op) /\ ~Draws(op, 0)
                    THEN [st.est EXCEPT !.random = @ + 2] ELSE st.est]
       /\ atoms' = ParticleEffect(op, 0, atoms, vw[0], r)
       /\ nsent' = nsent + Sendrecvs(op)
  /\ pc' = [pc EXCEPT ![0] = pc[0] + 1]
  /\ UNCHANGED <<ctorVars, hostVars, commVars, step, gridVars, nmVars, bufVars,
                 trVars, subVars, runVars>>

InitOne ==
  /\ run \in Runs /\ arg = RunList[run] /\ cfg = RunCfg[run]
  /\ stage = "constructed"
  /\ hostIdle /\ commIdle
  /\ layout = OneLayout
  /\ plan = [u \in {0} |-> <<comm_init(OneLayout, 0)>>]
  /\ np = 1 /\ atom_mass = 1
  /\ nm = [k \in {0} |-> <<nmpimd_init(1, 0, cfg, atom_mass)>>]
  /\ x0 = << >> /\ xbead = << >> /\ ntransf = 0
  /\ pc = [u \in {0} |-> 1]
  /\ step = [u \in {0} |-> 1]
  /\ vw = [u \in {0} |-> 0]
  /\ domain = [u \in {0} |-> domain0]
  /\ est = [u \in {0} |-> est0]
  /\ atoms = [x |-> <<1, -2>>, v |-> <<3, 1>>, f |-> <<-2, 4>>,
              ksi0 |-> 0, alpha |-> 1]
  /\ nsent = 0
  /\ bufIdle /\ trIdle /\ subIdle /\ runIdle

NextOne == OneStep

SpecOne == InitOne /\ [][NextOne]_vars

\* positions, velocities, forces, piston velocity and box
Dynamics == <<atoms.x, atoms.v, atoms.f, vw, domain>>

\* the functions of a timestep of plain Langevin dynamics: the force
\* evaluation, the B kicks, the drift and, when thermostatted, O
LangevinSteps(c) ==
  {"host_force", "b_step", "qc_step"}
  \cup (IF Thermostatted(c) THEN {"o_step", "svr_step"} ELSE {})

\* what a one-replica timestep executes besides
OtherSteps(c) ==
  (IF c.removecomflag = 1 THEN {"remove_com_motion"} ELSE {})
  \cup (IF c.pextflag = 1 THEN {"press_v_step", "press_o_step"} ELSE {})

C18_OnlyLangevin ==
  /\ nsent' = 0
  /\ Dynamics' # Dynamics => CurOp(0).f \in LangevinSteps(cfg)

C18_LangevinAndOthers ==
  /\ nsent' = 0
  /\ Dynamics' # Dynamics =>
       CurOp(0).f \in LangevinSteps(cfg) \cup OtherSteps(cfg)

\* C18 as stated: with one replica comm_exec sends no message, and only
\* the B kicks, the drift and (when thermostatted) the O sub-step change
\* the positions, velocities, piston or box during a timestep.
C18_PlainLangevinAsStated == [][C18_OnlyLangevin]_vars

\* C18: with one replica comm_exec sends no message and the transforms and
\* the A sub-step change nothing; the state is changed only by the force
\* evaluation, the B kicks, the drift, the O sub-step when thermostatted,
\* the centre-of-mass removal when it is enabled and the piston sub-steps
\* when a barostat is active.
C18_OneReplica == [][C18_LangevinAndOthers]_vars

C18_Witness ==
  /\ atoms # << >> /\ AtEnd(0) /\ nsent = 0
  /\ plan[0][1].size_plan = 0
  /\ cfg.ensemble = "nvt" /\ cfg.integrator = "obabo" /\ cfg.removecomflag = 1
  /\ atoms.x # <<1, -2>>

----------------------------------------------------------------------------
(* The energies at the end of a timestep (Spec).                           *)

RECURSIVE SumOf(_, _, _)
SumOf(g, what, n) ==
  IF g = {} THEN 0
  ELSE LET q == CHOOSE z \in g : TRUE
       IN LocalAt(q, what, n) + SumOf(g \ {q}, what, n)

\* kinetic, spring and potential energy of timestep n, summed as
\* compute_totke, compute_spring_energy and compute_pote sum them
KineticOf(n) == SumOf(Procs, "kine", n)
SpringOf(n) == SumOf(Procs, "spring_energy", n)
PotentialOf(n) == NS * SumOf(Procs, "pe", n)

\* process u has finished end_of_step of a timestep
StepEnded(u) == step[u] >= 1 /\ AtEnd(u)

\* C19: at the end of every timestep the total energy is the kinetic total
\* plus the potential plus the spring energy computed in that timestep;
\* the enthalpy is recomputed from it, the piston and the volume when a
\* barostat is active, and with no barostat it is never modified.
C19_EnergyBookkeeping ==
  Running => \A u \in Procs :
    /\ cfg.pextflag = 0 => est[u].totenthalpy = est0.totenthalpy
    /\ StepEnded(u) =>
         /\ est[u].tote =
              KineticOf(step[u]) + PotentialOf(step[u]) + SpringOf(step[u])
         /\ cfg.pextflag = 1 =>
              est[u].totenthalpy = Enthalpy(est[u].tote, vw[u], domain[u])

C19_Witness ==
  /\ Running /\ cfg.ensemble = "npt"
  /\ \A u \in Procs : step[u] = 2 /\ AtEnd(u)
  /\ est[0].totenthalpy # est[0].tote
  /\ est[0].tote # 0

----------------------------------------------------------------------------
(* The communication plan on a P x S grid (SpecGrid).                      *)

\* every process has returned from comm_init
AllPlanned ==
  layout # << >> /\ \A u \in GridProcs : plan[u] # << >>

\* the processes of the replicas other than the one of process p
OtherReplicas(p) ==
  {q \in GridProcs : universe_iworld(layout, q) # universe_iworld(layout, p)}

\* C21: on a P x S grid the plan is pairwise consistent and complete: the
\* process p sends to at index k receives from p at index k, the send
\* partners of p over the (P-1)*S indices are the processes of the other
\* replicas, each exactly once, and mode_index[k] is the replica of the
\* send partner.
C21_PlanConsistent ==
  (AllPlanned /\ ~Inconsistent(layout)) =>
    \A p \in GridProcs :
      LET pl == plan[p][1]
          idx == 0 .. ((universe_nworlds(layout) - 1) * layout[1] - 1)
      IN /\ pl.size_plan = (universe_nworlds(layout) - 1) * layout[1]
         /\ DOMAIN pl.plan_send = idx
         /\ \A k \in idx :
              /\ pl.plan_send[k] \in GridProcs
              /\ plan[pl.plan_send[k]][1].plan_recv[k] = p
              /\ pl.mode_index[k] = universe_iworld(layout, pl.plan_send[k])
         /\ {pl.plan_send[k] : k \in idx} = OtherReplicas(p)
         /\ \A k, l \in idx : pl.plan_send[k] = pl.plan_send[l] => k = l

C21_Witness ==
  /\ AllPlanned /\ layout = <<2, 2, 2>>
  /\ plan[3][1].size_plan = 4
  /\ plan[3][1].plan_send[0] # plan[3][1].plan_recv[0]

----------------------------------------------------------------------------
(* The capacities of the exchange buffers over a sequence of comm_exec     *)
(* calls with migration in between (SpecBuf), fix_dp_pimd.cpp:2120-2256.   *)
(* The atoms come in NAtoms blocks of bsize atoms; capacities and counts   *)
(* are numbers of atoms (a value buffer holds three doubles per atom).     *)

\* fix_dp_pimd.cpp:2122-2123, the margin comm_init allocates
InitSlack == 300
\* fix_dp_pimd.cpp:2154, 2191, 2232, the margin of a reallocation
GrowSlack == 200

BlockSizes == {1, 150, 301}
Holders == [Replicas -> [Ids -> Shards]]

\* atom->nlocal of process u
nlocalIn(o, z, u) ==
  z * Cardinality({b \in Ids : o[iworldOf(u)][b] = meOf(u)})

\* number of ids owned by process u that process q owns in its replica
CommonIn(o, z, u, q) ==
  z * Cardinality({b \in Ids : /\ o[iworldOf(u)][b] = meOf(u)
                                /\ o[iworldOf(q)][b] = meOf(q)})

\* fix_dp_pimd.cpp:2120-2138
comm_init_buffers(nlocal) ==
  LET max_nlocal == nlocal + InitSlack
      max_nsend == nlocal + InitSlack
  IN [max_nlocal |-> max_nlocal, max_nsend |-> max_nsend,
      buf_beads |-> max_nlocal, buf_send |-> max_nlocal,
      buf_recv |-> max_nlocal, tag_search |-> max_nsend,
      tag_send |-> max_nsend, tag_recv |-> max_nsend]

\* fix_dp_pimd.cpp:2152-2160
grow_beads(c, nlocal) ==
  IF nlocal > c.max_nlocal
  THEN [c EXCEPT !.max_nlocal = nlocal + GrowSlack,
                 !.buf_beads = nlocal + GrowSlack]
  ELSE c

\* fix_dp_pimd.cpp:2188-2195
grow_send(c, nsearch) ==
  IF nsearch > c.max_nsend
  THEN [c EXCEPT !.max_nsend = nsearch + GrowSlack,
                 !.tag_search = nsearch + GrowSlack,
                 !.tag_send = nsearch + GrowSlack,
                 !.buf_send = nsearch + GrowSlack]
  ELSE c

\* fix_dp_pimd.cpp:2230-2235: the test is against nlocal, and max_nrecv
\* is a local variable
grow_recv(c, nrecv, nlocal) ==
  IF nrecv > nlocal
  THEN [c EXCEPT !.tag_recv = nrecv + GrowSlack,
                 !.buf_recv = nrecv + GrowSlack]
  ELSE c

\* a write of n entries into a buffer, checked against its capacity
WriteTo(st, buffer, n) ==
  IF n > st.cap[buffer]
  THEN [st EXCEPT !.unfit = @ \cup {buffer}]
  ELSE st

\* fix_dp_pimd.cpp:2173-2256, plan entry k of process u
exec_entry(st, o, z, u, k) ==
  LET nlocal == nlocalIn(o, z, u)
      nsearch == nlocalIn(o, z, plan_recv(u, k))
      nsend == CommonIn(o, z, plan_recv(u, k), u)
      nrecv == CommonIn(o, z, u, plan_send(u, k))
      s1 == [st EXCEPT !.cap = grow_send(@, nsearch)]
      s2 == WriteTo(s1, "tag_search", nsearch)
      s3 == WriteTo(WriteTo(s2, "tag_send", nsend), "buf_send", nsend)
      s4 == [s3 EXCEPT !.cap = grow_recv(@, nrecv, nlocal)]
      s5 == WriteTo(WriteTo(s4, "tag_recv", nrecv), "buf_recv", nrecv)
  IN \* the received values go to slots below nlocal of a bead buffer
     IF nrecv > 0 THEN WriteTo(s5, "buf_beads", nlocal) ELSE s5

RECURSIVE exec_entries(_, _, _, _, _)
exec_entries(st, o, z, u, k) ==
  IF k >= size_plan THEN st
  ELSE exec_entries(exec_entry(st, o, z, u, k), o, z, u, k + 1)

\* fix_dp_pimd.cpp:2146-2267, the capacities after a call of process u
\* and the buffers it wrote beyond their capacity
comm_exec_buffers(c, o, z, u) ==
  LET nlocal == nlocalIn(o, z, u)
      st0 == [cap |-> grow_beads(c, nlocal), unfit |-> {}]
  IN exec_entries(WriteTo(st0, "buf_beads", nlocal), o, z, u, 0)

\* every process calls comm_exec; a write beyond a buffer has no defined
\* continuation, so no call follows one
CommExecBuffers ==
  /\ phase \in {"init", "migrated"}
  /\ \A u \in Procs : unfit[u] = {}
  /\ cap' = [u \in Procs |-> comm_exec_buffers(cap[u], holder, bsize, u).cap]
  /\ unfit' = [u \in Procs |-> comm_exec_buffers(cap[u], holder, bsize, u).unfit]
  /\ phase' = "exchanged"
  /\ UNCHANGED <<ctorVars, hostVars, commVars, stepVars, gridVars, nmVars,
                 oneVars, holder, bsize, trVars, subVars, runVars>>

\* the neighbor-list rebuild between two calls moves atoms between the
\* shards of a replica
Migrate ==
  /\ phase \in {"init", "exchanged"}
  /\ \A u \in Procs : unfit[u] = {}
  /\ \E o \in Holders \ {holder} : holder' = o
  /\ phase' = "migrated"
  /\ UNCHANGED <<ctorVars, hostVars, commVars, stepVars, gridVars, nmVars,
                 oneVars, bsize, cap, unfit, trVars, subVars, runVars>>

InitBuf ==
  /\ run = 0 /\ arg = Prefix /\ cfg = Defaults /\ stage = "constructed"
  /\ hostIdle /\ commIdle /\ stepIdle /\ gridIdle /\ nmIdle /\ oneIdle
  /\ trIdle /\ subIdle /\ runIdle
  /\ holder \in Holders
  /\ bsize \in BlockSizes
  /\ cap = [u \in Procs |-> comm_init_buffers(nlocalIn(holder, bsize, u))]
  /\ unfit = [u \in Procs |-> {}]
  /\ phase = "init"

NextBuf == CommExecBuffers \/ Migrate

SpecBuf == InitBuf /\ [][NextBuf]_vars

\* C20: over any sequence of comm_exec calls with migration between the
\* calls, every exchange buffer (bead buffers, send and receive value
\* buffers, searched, sent and received id buffers) has at each write a
\* capacity of at least the number of entries written to it.
C20_BuffersFit ==
  phase # "none" => \A u \in Procs : unfit[u] = {}

----------------------------------------------------------------------------
(* nmpimd_transform on the bead buffers of each process (SpecTr),          *)
(* fix_dp_pimd.cpp:2003-2017.  The values are integers; a per-atom array   *)
(* is a function of slot and coordinate, a bead buffer one of the flat     *)
(* index m.                                                                *)

Dims == 0 .. 2

\* coordinate d of atom t on replica j before the exchange
CoordOf(j, t, d) == 9 * j + 3 * t + d - 5

\* atom->tag of process u: the ids its shard owns, in ascending order
TagsOf(dc, u) == Ascending({t \in Ids : dc[t] = meOf(u)})

\* buf_beads of process u after comm_exec(atom->x): buffer j holds the
\* coordinates replica j has of the atoms of u, three per slot
BeadsOf(dc, u) ==
  [j \in Replicas |->
     [m \in 0 .. (3 * Len(TagsOf(dc, u)) - 1) |->
        CoordOf(j, At(TagsOf(dc, u), m \div 3), m % 3)]]

\* atom->x of process u
ArrayOf(dc, u) ==
  [i \in 0 .. (Len(TagsOf(dc, u)) - 1) |->
     [d \in Dims |-> CoordOf(iworldOf(u), At(TagsOf(dc, u), i), d)]]

\* fix_dp_pimd.cpp:2014, the loop over j for the flat index m on top of
\* the value acc of des[i][d]
RECURSIVE dot_loop(_, _, _, _, _)
dot_loop(from, vector, m, j, acc) ==
  IF j >= NP THEN acc
  ELSE dot_loop(from, vector, m, j + 1, acc + from[j][m] * vector[j])

\* nmpimd_transform with m advanced once per atom
nmpimd_transform_arrays_m_per_atom(from, to, vector, n) ==
  [i \in 0 .. (n - 1) |-> [d \in Dims |-> dot_loop(from, vector, i, 0, 0)]]

\* fix_dp_pimd.cpp:2005-2016: des[i][d] is zeroed, then accumulated; m
\* is advanced once per (i, d), so it is 3*i + d in the loop body
nmpimd_transform_arrays(from, to, vector, n) ==
  [i \in 0 .. (n - 1) |->
     [d \in Dims |-> dot_loop(from, vector, 3 * i + d, 0, 0)]]

\* fix_dp_pimd.cpp:564: nmpimd_transform(buf_beads, atom->x,
\* M_x2xp[universe->iworld]) on process u; the processes share nothing
\* and are taken in rank order
NmpimdTransform(u) ==
  /\ deco # << >>
  /\ ntr = u
  /\ des' = [des EXCEPT ![u] =
               nmpimd_transform_arrays(bb[u], des[u], rows[iworldOf(u)],
                                       Len(TagsOf(deco, u)))]
  /\ ntr' = ntr + 1
  /\ UNCHANGED <<ctorVars, hostVars, commVars, stepVars, gridVars, nmVars,
                 oneVars, bufVars, deco, rows, bb, subVars, runVars>>

RowEntries == {-1, 0, 2}

InitTr ==
  /\ run = 0 /\ arg = Prefix /\ cfg = Defaults /\ stage = "constructed"
  /\ hostIdle /\ commIdle /\ stepIdle /\ gridIdle /\ nmIdle /\ oneIdle
  /\ bufIdle /\ subIdle /\ runIdle
  /\ deco \in [Ids -> Shards]
  /\ \E a, b \in RowEntries :
       rows = [r \in Replicas |-> [j \in Replicas |-> a * r + b * j + 1]]
  /\ bb = [u \in Procs |-> BeadsOf(deco, u)]
  /\ des = [u \in Procs |-> ArrayOf(deco, u)]
  /\ ntr = 0

NextTr == \E u \in Procs : NmpimdTransform(u)

SpecTr == InitTr /\ [][NextTr]_vars

RECURSIVE SumOverReplicas(_, _)
SumOverReplicas(f, g) ==
  IF g = {} THEN 0
  ELSE LET j == CHOOSE z \in g : TRUE IN f[j] + SumOverReplicas(f, g \ {j})

\* C22: after nmpimd_transform on a process, des[i][d] is the sum over
\* the P replicas j of src[j][3i+d] * vector[j] for every local slot i and
\* coordinate d, with vector the matrix row of the replica of the process;
\* the bead buffers are only read, and the destination array of a process
\* that has not called is as it was.
C22_TransformIsOwnRowDot ==
  deco # << >> =>
    /\ bb = [u \in Procs |-> BeadsOf(deco, u)]
    /\ \A u \in Procs :
         IF u < ntr
         THEN /\ DOMAIN des[u] = 0 .. (Len(TagsOf(deco, u)) - 1)
              /\ \A i \in DOMAIN des[u] : \A d \in Dims :
                   des[u][i][d] =
                     SumOverReplicas(
                       [j \in Replicas |->
                          bb[u][j][3 * i + d] * rows[iworldOf(u)][j]],
                       Replicas)
         ELSE des[u] = ArrayOf(deco, u)

C22_Witness ==
  /\ deco # << >> /\ ntr = NP * NS
  /\ \E u \in Procs : /\ Len(TagsOf(deco, u)) = 2
                       /\ des[u] # ArrayOf(deco, u)
                       /\ des[u][1][2] # des[u][0][2]
  /\ rows[0] # rows[1]

----------------------------------------------------------------------------
(* One call of a sub-step function on every process of the grid (SpecSub). *)
(* Every process holds two atoms with one coordinate; the operations of    *)
(* the call are those of the timestep, and in addition to vw, domain and   *)
(* est they act on the atoms and on the scalars of the rescaling           *)
(* thermostat.                                                             *)

\* masstotal of init (group->mass over world) for atoms of unit mass
masstotal == 2 * NS

\* fix_dp_pimd.cpp:1749-1753, computed where universe->me == 0
alpha_value(p) == p.ksi0 + p.noise_total + p.ke_total

\* remove_com_motion without the test of the replica
SubParticleEffect_everywhere(op, u, p, r) ==
  CASE op.f = "svr_step" /\ op.d = "ke_0" ->
         [p EXCEPT !.ke_0 = p.v[1] * p.v[1] + p.v[2] * p.v[2]]
    [] op.f = "svr_step" /\ op.d = "noise" ->
         [p EXCEPT !.ksi0 = IF iworldOf(u) = 0 THEN r[1] ELSE 0,
                   !.noise = r[1] * r[1] + r[2] * r[2]]
    [] op.f = "svr_step" /\ op.d = "alpha" ->
         IF u = 0 THEN [p EXCEPT !.alpha = alpha_value(p)] ELSE p
    [] op.f = "remove_com_motion" /\ op.d = "subtract" ->
         [p EXCEPT !.v = [i \in 1 .. 2 |-> p.v[i] - p.vcm \div masstotal]]
    [] op.f = "remove_com_motion" /\ op.d = "" ->
         [p EXCEPT !.v = [i \in 1 .. 2 |-> p.v[i] - (p.v[1] + p.v[2]) \div 2]]
    [] OTHER -> ParticleEffect(op, iworldOf(u), p, vw[u], r)

\* what the local operation op does to the atoms and the thermostat
\* scalars of process u: fix_dp_pimd.cpp:1727-1730 (ke_0), 1733-1743
\* (noise_, ksi0_), 1747-1754 (alpha), 1709-1716 (subtraction of vcm)
SubParticleEffect(op, u, p, r) ==
  CASE op.f = "svr_step" /\ op.d = "ke_0" ->
         [p EXCEPT !.ke_0 = p.v[1] * p.v[1] + p.v[2] * p.v[2]]
    [] op.f = "svr_step" /\ op.d = "noise" ->
         [p EXCEPT !.ksi0 = IF iworldOf(u) = 0 THEN r[1] ELSE 0,
                   !.noise = r[1] * r[1] + r[2] * r[2]]
    [] op.f = "svr_step" /\ op.d = "alpha" ->
         IF u = 0 THEN [p EXCEPT !.alpha = alpha_value(p)] ELSE p
    [] op.f = "remove_com_motion" /\ op.d = "subtract" ->
         [p EXCEPT !.v = [i \in 1 .. 2 |-> p.v[i] - p.vcm \div masstotal]]
    [] op.f = "remove_com_motion" /\ op.d = "" -> p
    [] OTHER -> ParticleEffect(op, iworldOf(u), p, vw[u], r)

\* the operations that call random->gaussian()
SubDraws(op, u) ==
  \/ Draws(op, u)
  \/ op.f = "o_step" /\ op.d = "langevin"
  \/ op.f = "svr_step" /\ op.d = "noise"

\* the next two numbers of the stream of process u
SubDrawn(u) ==
  IF cfg.seed = Indet THEN [1 .. 2 -> Gauss]
  ELSE {[i \in 1 .. 2 |-> gaussian(cfg.seed + u, parts[u].ndraw + i - 1)]}

\* the send buffer of a reduction and the buffer of a broadcast
SubOperand(d, q) ==
  CASE d = "ke_total" -> parts[q].ke_0
    [] d = "noise_total" -> parts[q].noise
    [] d = "vcm" -> parts[q].v[1] + parts[q].v[2]
    [] OTHER -> Operand(d, q)

SubBuffer(d, q) ==
  CASE d = "alpha" -> parts[q].alpha
    [] OTHER -> Buffer(d, q)

RECURSIVE SubSumOver(_)
SubSumOver(g) ==
  IF g = {} THEN 0
  ELSE LET q == CHOOSE x \in g : TRUE
       IN SubOperand(CurOp(q).d, q) + SubSumOver(g \ {q})

\* the blocking operations without the broadcast of alpha
CollParts_alpha_kept(op, q, sum, sent) ==
  IF op.k = "allreduce" /\ op.d \in {"ke_total", "noise_total", "vcm"}
  THEN [parts[q] EXCEPT ![op.d] = sum]
  ELSE parts[q]

\* what the blocking operation op leaves in the scalars of process q:
\* fix_dp_pimd.cpp:1731, 1745 (MPI_Allreduce), 1757 (MPI_Bcast of alpha),
\* and the MPI_Allreduce of group->vcm
CollParts(op, q, sum, sent) ==
  IF op.k = "allreduce" /\ op.d \in {"ke_total", "noise_total", "vcm"}
  THEN [parts[q] EXCEPT ![op.d] = sum]
  ELSE IF op.k = "bcast" /\ op.d = "alpha"
  THEN [parts[q] EXCEPT !.alpha = sent]
  ELSE parts[q]

\* process u executes its next operation, a local one
SubLocal(u) ==
  /\ fn # "" /\ ~AtEnd(u)
  /\ \E op \in {CurOp(u)} :
       /\ op.k = "local"
       /\ \E r \in (IF SubDraws(op, u) THEN SubDrawn(u) ELSE {<<0, 0>>}) :
            \E st \in {LocalEffect(op, u, PState(u), r[1])} :
              /\ vw' = [vw EXCEPT ![u] = st.vw]
              /\ domain' = [domain EXCEPT ![u] = st.domain]
              /\ est' = [est EXCEPT ![u] = st.est]
              /\ parts' = [parts EXCEPT ![u] =
                    [SubParticleEffect(op, u, parts[u], r) EXCEPT
                       !.ndraw = IF SubDraws(op, u) THEN @ + 2 ELSE @]]
  /\ pc' = [pc EXCEPT ![u] = pc[u] + 1]
  /\ UNCHANGED <<ctorVars, hostVars, commVars, step, gridVars, nmVars, oneVars,
                 bufVars, trVars, fn, runVars>>

\* the operation all of g have entered completes on every member
SubComplete(g) ==
  \E kind \in {CurOp(Root(g)).k} :
  \E sum \in {IF kind = "allreduce" THEN SubSumOver(g) ELSE 0} :
  \E sent \in {IF kind = "bcast"
               THEN SubBuffer(CurOp(Root(g)).d, Root(g)) ELSE 0} :
    /\ vw' = [q \in Procs |->
                IF q \in g THEN CollVw(CurOp(q), q, sent) ELSE vw[q]]
    /\ domain' = [q \in Procs |->
                    IF q \in g THEN CollDomain(CurOp(q), q, sent) ELSE domain[q]]
    /\ est' = [q \in Procs |->
                 IF q \in g THEN CollEst(CurOp(q), q, sum, sent) ELSE est[q]]
    /\ parts' = [q \in Procs |->
                   IF q \in g THEN CollParts(CurOp(q), q, sum, sent)
                   ELSE parts[q]]
    /\ pc' = [q \in Procs |-> IF q \in g THEN pc[q] + 1 ELSE pc[q]]
    /\ UNCHANGED <<ctorVars, hostVars, commVars, step, gridVars, nmVars,
                   oneVars, bufVars, trVars, fn, runVars>>

SubCollectiveU == fn # "" /\ Arrived(Procs, "U") /\ SubComplete(Procs)

SubCollectiveW(r) ==
  fn # "" /\ Arrived(World(r), "W") /\ TurnW(r) /\ SubComplete(World(r))

\* the atoms of process u before the call; s selects one of the inputs
Patterns == {-1, 1, 2}
Parts0(s, u) ==
  [x |-> <<s * (u + 1), 2 * u - 3 * s>>,
   v |-> <<masstotal * (u + s), masstotal * (1 - 2 * u)>>,
   f |-> <<3 * s - u, u + 2>>,
   ksi0 |-> 0, alpha |-> Indet, ke_0 |-> 0, ke_total |-> 0, noise |-> 0,
   noise_total |-> 0, vcm |-> 0, ndraw |-> 0]

\* the piston velocity every process holds when a barostat is active
Pistons == {-1, 2}

\* the sub-step functions init..final_integrate call under c:
\* fix_dp_pimd.cpp:685-688 (o_step under nvt and npt, remove_com_motion
\* under removecomflag)
Callable(c, f) ==
  /\ f = "o_step" => Thermostatted(c)
  /\ f = "remove_com_motion" => c.removecomflag = 1

SubRuns ==
  {r \in Runs : RunCfg[r].method = "NMPIMD" /\ RunCfg[r].integrator = "obabo"}

InitSub ==
  /\ run \in SubRuns /\ arg = RunList[run] /\ cfg = RunCfg[run]
  /\ stage = "constructed"
  /\ hostIdle /\ commIdle /\ gridIdle /\ nmIdle /\ oneIdle /\ bufIdle /\ trIdle
  /\ runIdle
  /\ fn \in {f \in SubFns : Callable(cfg, f)}
  /\ pc = [u \in Procs |-> 1]
  /\ step = [u \in Procs |-> MaxSteps]
  /\ \E w \in Pistons :
       vw = [u \in Procs |-> IF cfg.pextflag = 1 THEN w ELSE Indet]
  /\ domain = [u \in Procs |-> domain0]
  /\ est = [u \in Procs |-> est0]
  /\ \E s \in Patterns : parts = [u \in Procs |-> Parts0(s, u)]

NextSub ==
  \/ \E u \in Movers : SubLocal(u)
  \/ SubCollectiveU
  \/ \E r \in Replicas : SubCollectiveW(r)

SpecSub == InitSub /\ [][NextSub]_vars

----------------------------------------------------------------------------
(* The frame of the A sub-step and of the centroid drift (SpecSub).        *)

\* every process has returned from the call
SubDone == fn # "" /\ \A u \in Procs : AtEnd(u)

\* the timestep of every run calls qc_step twice
TwoDriftsPerStep ==
  \A r \in Runs : \A u \in Procs :
    Cardinality({i \in DOMAIN ProgTable[r][u][1] :
                   /\ ProgTable[r][u][1][i].f = "qc_step"
                   /\ ProgTable[r][u][1][i].e}) = 2

\* a step of a call of a_step
C23_AStepFrame ==
  fn = "a_step" =>
    /\ \A u \in Procs :
         /\ iworldOf(u) = 0 => parts'[u] = parts[u]
         /\ parts'[u] = [parts[u] EXCEPT !.x = parts'[u].x, !.v = parts'[u].v]
    /\ domain' = domain /\ vw' = vw

\* a step of a call of qc_step without a barostat
C23_DriftFrame ==
  (fn = "qc_step" /\ cfg.pextflag = 0) =>
    /\ \A u \in Procs :
         /\ iworldOf(u) # 0 => parts'[u] = parts[u]
         /\ parts'[u] = [parts[u] EXCEPT !.x = parts'[u].x]
         /\ (iworldOf(u) = 0 /\ pc'[u] # pc[u]) =>
              \A i \in 1 .. 2 : parts'[u].x[i] = parts[u].x[i] + parts[u].v[i]
    /\ domain' = domain /\ vw' = vw

\* C23: the A sub-step changes positions and velocities only on the
\* replicas other than 0; without a barostat the centroid drift changes
\* only the positions of replica 0, by x += v*dtv in each of the two
\* calls of a timestep, and leaves the velocities, the positions of the
\* other replicas and the box unchanged.
C23_AStepAndDriftFrame ==
  [][TwoDriftsPerStep /\ C23_AStepFrame /\ C23_DriftFrame]_vars

C23_Witness ==
  /\ SubDone /\ fn = "qc_step" /\ cfg.pextflag = 0
  /\ \E s \in Patterns :
       /\ \A u \in Procs : iworldOf(u) # 0 => parts[u] = Parts0(s, u)
       /\ \A u \in Procs : iworldOf(u) = 0 =>
            /\ parts[u].x # Parts0(s, u).x
            /\ parts[u].x[1] = Parts0(s, u).x[1] + Parts0(s, u).v[1]

----------------------------------------------------------------------------
(* The centroid drift with a barostat (SpecSub).                           *)

\* the atoms of replica 0 have made the volume-coupled drift of one call
\* and every process holds the scaled box
VolumeCoupledDrift(s) ==
  \A u \in Procs :
    /\ iworldOf(u) = 0 =>
         \A i \in 1 .. 2 :
           /\ parts[u].x[i] = Parts0(s, u).x[i] + vw[u] + Parts0(s, u).v[i]
           /\ parts[u].v[i] = Parts0(s, u).v[i] - vw[u]
    /\ domain[u].xprd = domain0.xprd + vw[u]
    /\ domain[u].yprd = domain0.yprd + vw[u]
    /\ domain[u].zprd = domain0.zprd + vw[u]

\* C24: with a barostat (ensemble nph or npt), BZP or MTTK, a centroid
\* drift sub-step advances the positions of replica 0 with the
\* volume-coupled update, scales its velocities by exp(-vw*dt/2) and the
\* box lengths by exp(vw*dt/2).
C24_DriftScalesWithBarostat ==
  (SubDone /\ fn = "qc_step" /\ cfg.pextflag = 1) =>
    \E s \in Patterns : VolumeCoupledDrift(s)

----------------------------------------------------------------------------
(* The removal of the centre-of-mass velocity (SpecSub).                   *)

\* a step of a call of remove_com_motion
C25_OnlyCentroidChanges ==
  fn = "remove_com_motion" =>
    \A u \in Procs :
      /\ iworldOf(u) # 0 => parts'[u] = parts[u]
      /\ parts'[u].x = parts[u].x /\ parts'[u].f = parts[u].f

\* the call has no blocking operation on the replicas other than 0
C25_NoCollectiveElsewhere ==
  fn = "remove_com_motion" =>
    \A u \in Procs : iworldOf(u) # 0 =>
      \A i \in DOMAIN ProgOf(u) : ProgOf(u)[i].k = "local"

\* C25: remove_com_motion modifies velocities only on the processes of
\* replica 0; on every other replica it leaves all velocities unchanged
\* and performs no collective operation.
C25_ComRemovalOnCentroidOnly ==
  [][C25_OnlyCentroidChanges /\ C25_NoCollectiveElsewhere]_vars

\* the sum of the velocities of the atoms of replica r
RECURSIVE MomentumOf(_)
MomentumOf(g) ==
  IF g = {} THEN 0
  ELSE LET q == CHOOSE z \in g : TRUE
       IN parts[q].v[1] + parts[q].v[2] + MomentumOf(g \ {q})

C25_Witness ==
  /\ SubDone /\ fn = "remove_com_motion"
  /\ MomentumOf(World(0)) = 0
  /\ MomentumOf(World(1)) # 0
  /\ \E s \in Patterns :
       /\ parts[0].v # Parts0(s, 0).v
       /\ \A u \in Procs : iworldOf(u) # 0 => parts[u] = Parts0(s, u)

----------------------------------------------------------------------------
(* The O sub-step with the PILE_G thermostat (SpecSub).                    *)

\* the kinetic energy of the atoms of the processes of g before the call
RECURSIVE KineticBefore(_, _)
KineticBefore(s, g) ==
  IF g = {} THEN 0
  ELSE LET q == CHOOSE z \in g : TRUE
       IN Parts0(s, q).v[1] * Parts0(s, q).v[1]
          + Parts0(s, q).v[2] * Parts0(s, q).v[2] + KineticBefore(s, g \ {q})

\* C27: with PILE_G, in an O sub-step every process of replica 0
\* multiplies its velocities by the one factor alpha that universe rank 0
\* computed (from the kinetic energy of the replica) and broadcast to the
\* replica, and every other replica makes the per-atom Langevin update
\* with the coefficients c1_k, c2_k of its own mode.
C27_PileGlobal ==
  (SubDone /\ fn = "o_step" /\ cfg.thermostat = "PILE_G") =>
    \E s \in Patterns : \A u \in Procs : \A i \in 1 .. 2 :
      IF iworldOf(u) = 0
      THEN /\ parts[0].alpha = alpha_value(parts[0])
           /\ parts[0].ke_total = KineticBefore(s, World(0))
           /\ parts[u].alpha = parts[0].alpha
           /\ parts[u].v[i] = parts[0].alpha * Parts0(s, u).v[i]
      ELSE parts[u].v[i] =
             c1_k(iworldOf(u)) * Parts0(s, u).v[i]
             + c2_k(iworldOf(u)) * gaussian(cfg.seed + u, i - 1)

C27_Witness ==
  /\ SubDone /\ fn = "o_step" /\ cfg.thermostat = "PILE_G"
  /\ parts[1].alpha = parts[0].alpha
  /\ parts[1].alpha # alpha_value(parts[1])
  /\ parts[0].alpha \notin {0, 1, Indet}
  /\ \E s \in Patterns : parts[1].v # Parts0(s, 1).v /\ parts[NS].v # Parts0(s, NS).v

----------------------------------------------------------------------------
(* The representation of the arrays at the B sub-step.                     *)

\* the representation of atom->x, atom->v and atom->f: "bead" as the host
\* engine holds them, "mode" after nmpimd_transform with M_x2xp
BeadRep == [x |-> "bead", v |-> "bead", f |-> "bead"]

\* the representation after one operation: nmpimd_transform writes its
\* array (fix_dp_pimd.cpp:2003-2017, called at 564, 574, 584, 724, 871,
\* 946, 1227), the host engine's force evaluation writes bead forces
RepAfter(rp, op) ==
  CASE op.f = "nmpimd_transform" /\ op.d = "x_forward" -> [rp EXCEPT !.x = "mode"]
    [] op.f = "nmpimd_transform" /\ op.d = "x_inverse" -> [rp EXCEPT !.x = "bead"]
    [] op.f = "nmpimd_transform" /\ op.d = "v_forward" -> [rp EXCEPT !.v = "mode"]
    [] op.f = "nmpimd_transform" /\ op.d = "f_forward" -> [rp EXCEPT !.f = "mode"]
    [] op.f = "host_force" -> [rp EXCEPT !.f = "bead"]
    [] OTHER -> rp

\* the representations before each position of a program and after its
\* last operation, from the representation rp at its start
RECURSIVE RepRange(_, _, _, _)
RepJoin(left, prog, mid, hi) ==
  left \o RepRange(prog, mid + 1, hi, RepAfter(left[Len(left)], prog[mid]))

\* the representations before the positions lo .. hi
RepRange(prog, lo, hi, rp) ==
  IF lo >= hi THEN <<rp>>
  ELSE RepJoin(RepRange(prog, lo, (lo + hi) \div 2, rp),
               prog, (lo + hi) \div 2, hi)

RepSeq(prog, rp) == RepRange(prog, 1, Len(prog) + 1, rp)

\* for the program before the first timestep and for each timestep
RECURSIVE RepSteps(_, _, _)
RepSteps(r, u, n) ==
  IF n = 0 THEN <<RepSeq(ProgTable[r][u][0], BeadRep)>>
  ELSE LET before == RepSteps(r, u, n - 1)
           last == before[n]
       IN  Append(before, RepSeq(ProgTable[r][u][1], last[Len(last)]))

RepTable == [r \in Runs |-> [u \in Procs |-> RepSteps(r, u, MaxSteps)]]

\* the representation of the arrays of process u where it stands
RepNow(u) == RepTable[run][u][step[u] + 1][pc[u]]

AtBStep(u) == fn = "" /\ ~AtEnd(u) /\ CurOp(u).f = "b_step"

----------------------------------------------------------------------------
(* The two kinetic energies of compute_totke (Spec).                       *)

\* process u has just returned from compute_totke
AfterTotke(u) ==
  /\ fn = "" /\ pc[u] > 1 /\ pc[u] <= Len(ProgOf(u)) + 1
  /\ ProgOf(u)[pc[u] - 1].f = "compute_totke"
  /\ ProgOf(u)[pc[u] - 1].d = "c_press"

\* the sum over the processes of g of the ke_bead they hold, one shard per
\* replica
RECURSIVE BeadSum(_)
BeadSum(rs) ==
  IF rs = {} THEN 0
  ELSE LET r == CHOOSE z \in rs : TRUE
       IN est[Root(World(r))].ke_bead + BeadSum(rs \ {r})

\* C28: after compute_totke, ke_bead is the sum of the local kinetic
\* energies over the shards of the caller's replica and totke the sum over
\* all P x S processes divided by P (est.totke is held in units of 1 / P,
\* the factor mvv2e / np being a unit factor), so P * totke is the sum of
\* ke_bead over the replicas; ke_bead is the same on all shards of a replica
\* and totke on all processes.
C28_TotkeSums ==
  Running =>
    /\ \A u \in Procs :
         AfterTotke(u) =>
           /\ est[u].kine = LocalAt(u, "kine", step[u])
           /\ est[u].ke_bead = SumOf(World(iworldOf(u)), "kine", step[u])
           /\ est[u].totke = SumOf(Procs, "kine", step[u])
    /\ (\E u \in Procs : AfterTotke(u)) =>
         /\ est[0].totke = BeadSum(Replicas)
         /\ \A u, q \in Procs :
              /\ est[u].totke = est[q].totke
              /\ iworldOf(u) = iworldOf(q) => est[u].ke_bead = est[q].ke_bead

\* the processes of the last replica have returned from the compute_totke
\* of end_of_step in the last timestep; the replicas hold different
\* ke_bead, none of them totke
C28_Witness ==
  /\ Running
  /\ \A u \in World(NP - 1) :
       /\ AfterTotke(u) /\ step[u] = MaxSteps
       /\ CurOp(u).f = "compute_p_prim"
  /\ \A u \in Procs : est[u].ke_bead # 0 /\ est[u].ke_bead # est[u].totke
  /\ est[0].ke_bead # est[NP * NS - 1].ke_bead
  /\ est[0].totke = BeadSum(Replicas)

----------------------------------------------------------------------------
(* The kinetic energies behind the centroid-virial pressure (Spec).        *)

\* ke: the state of ke_bead and totke ("zeroed", "fresh": as compute_totke
\* left them and no velocity has changed since, "stale"); p: the state of
\* the kinetic energies p_cv and p_md were built from
KeStart == [ke |-> "zeroed", p |-> "zeroed"]

\* the functions that write atom->v: b_step (fix_dp_pimd.cpp:1323-1379),
\* qc_step (1548-1621), a_step (1674-1695), remove_com_motion (1699-1717),
\* svr_step (1721-1771), o_step (1849-1895) and the transform of the
\* velocities in setup (577-585)
ChangesVelocities(op) ==
  \/ op.f \in {"b_step", "qc_step", "a_step", "remove_com_motion",
               "svr_step", "o_step"}
  \/ op.f = "nmpimd_transform" /\ op.d = "v_forward"

\* fix_dp_pimd.cpp:2528-2550 (compute_totke), 2574-2575
\* (compute_spring_energy: totke = ke_bead = 0.0), 2492-2502 (compute_p_cv)
KeAfter(k, op) ==
  CASE op.f = "compute_totke" /\ op.d = "kine" -> [k EXCEPT !.ke = "zeroed"]
    [] op.f = "compute_totke" /\ op.d = "totke" -> [k EXCEPT !.ke = "fresh"]
    [] op.f = "compute_spring_energy" /\ op.d = "spring_energy" ->
         [ke |-> "zeroed", p |-> IF k.p = "fresh" THEN "stale" ELSE k.p]
    [] op.f = "compute_p_cv" /\ op.d = "p_md_p_cv" -> [k EXCEPT !.p = k.ke]
    [] ChangesVelocities(op) ->
         [ke |-> IF k.ke = "fresh" THEN "stale" ELSE k.ke,
          p |-> IF k.p = "fresh" THEN "stale" ELSE k.p]
    [] OTHER -> k

RECURSIVE KeRange(_, _, _, _)
KeJoin(left, prog, mid, hi) ==
  left \o KeRange(prog, mid + 1, hi, KeAfter(left[Len(left)], prog[mid]))

\* the states before the positions lo .. hi
KeRange(prog, lo, hi, k) ==
  IF lo >= hi THEN <<k>>
  ELSE KeJoin(KeRange(prog, lo, (lo + hi) \div 2, k),
              prog, (lo + hi) \div 2, hi)

KeSeq(prog, k) == KeRange(prog, 1, Len(prog) + 1, k)

\* for the program before the first timestep and for each timestep
RECURSIVE KeSteps(_, _, _)
KeSteps(r, u, n) ==
  IF n = 0 THEN <<KeSeq(ProgTable[r][u][0], KeStart)>>
  ELSE LET before == KeSteps(r, u, n - 1)
           last == before[n]
       IN  Append(before, KeSeq(ProgTable[r][u][1], last[Len(last)]))

KeTable == [r \in Runs |-> [u \in Procs |-> KeSteps(r, u, MaxSteps)]]

\* the state of the kinetic energies of process u where it stands
KeNow(u) == KeTable[run][u][step[u] + 1][pc[u]]

AtOp(u, f, d) == fn = "" /\ ~AtEnd(u) /\ CurOp(u).f = f /\ CurOp(u).d = d

\* C29: whenever p_cv is computed, and whenever press_v_step consumes it,
\* the kinetic energies behind it come from a compute_totke that ran after
\* the last sub-step that changed velocities and after the last
\* compute_spring_energy, whatever the integrator
C29_PressureFromFreshKinetic ==
  Running =>
    \A u \in Procs :
      /\ AtOp(u, "compute_p_cv", "p_md_p_cv") => KeNow(u).ke = "fresh"
      /\ (~AtEnd(u) /\ fn = "" /\ CurOp(u).f = "press_v_step") =>
           KeNow(u).p = "fresh"

\* a process of a baoab run with a barostat enters press_v_step at the
\* start of the last timestep, the pressure being that of the previous
\* end_of_step
C29_Witness ==
  /\ Running /\ cfg.pextflag = 1
  /\ \E u \in Procs :
       /\ ~AtEnd(u) /\ CurOp(u).f = "press_v_step"
       /\ CurOp(u).h = "initial_integrate"
       /\ cfg.integrator = "baoab" /\ pc[u] <= 2 /\ step[u] = MaxSteps
       /\ KeNow(u) = [ke |-> "fresh", p |-> "fresh"]

----------------------------------------------------------------------------
(* The unwrapping of the positions (Spec).                                 *)

Unmappers == {"setup", "initial_integrate", "post_force"}

\* depth: the calls of domain->unmap not yet undone by unmap_inv; h: the
\* handler running; done: the unmap / unmap_inv pairs each function has
\* completed in this call of the handler; buf, snap, xc: whether the
\* positions were unwrapped when comm_exec gathered them into buf_beads,
\* when update_x_unwrap copied them and when compute_xc averaged buf_beads
WrapStart ==
  [depth |-> 0, h |-> "", done |-> [f \in Unmappers |-> 0],
   buf |-> "none", snap |-> "none", xc |-> "none"]

FormAt(depth) == IF depth = 0 THEN "wrapped" ELSE "unwrapped"

\* fix_dp_pimd.cpp:551-556, 588-594, 659-665, 972-980, 1102-1118 (unmap,
\* unmap_inv), 1082-1088 (update_x_unwrap), 2276-2290 (compute_xc)
WrapStep(w, op) ==
  CASE op.d = "unmap" /\ op.f \in Unmappers ->
         [w EXCEPT !.depth = w.depth + 1]
    [] op.d = "unmap_inv" /\ op.f \in Unmappers ->
         [w EXCEPT !.depth = w.depth - 1,
                   !.done = [w.done EXCEPT ![op.f] = w.done[op.f] + 1]]
    [] op.f = "comm_exec" /\ op.d = "x" -> [w EXCEPT !.buf = FormAt(w.depth)]
    [] op.f = "update_x_unwrap" /\ op.d = "copy" ->
         [w EXCEPT !.snap = FormAt(w.depth)]
    [] op.f = "compute_xc" /\ op.d = "xc" -> [w EXCEPT !.xc = w.buf]
    [] OTHER -> w

\* the host engine calls the next handler
WrapAfter(w, op) ==
  WrapStep(IF op.h = w.h THEN w
           ELSE [w EXCEPT !.h = op.h, !.done = [f \in Unmappers |-> 0]], op)

RECURSIVE WrapRange(_, _, _, _)
WrapJoin(left, prog, mid, hi) ==
  left \o WrapRange(prog, mid + 1, hi, WrapAfter(left[Len(left)], prog[mid]))

\* the states before the positions lo .. hi
WrapRange(prog, lo, hi, w) ==
  IF lo >= hi THEN <<w>>
  ELSE WrapJoin(WrapRange(prog, lo, (lo + hi) \div 2, w),
                prog, (lo + hi) \div 2, hi)

WrapSeq(prog, w) == WrapRange(prog, 1, Len(prog) + 1, w)

\* for the program before the first timestep and for each timestep
RECURSIVE WrapSteps(_, _, _)
WrapSteps(r, u, n) ==
  IF n = 0 THEN <<WrapSeq(ProgTable[r][u][0], WrapStart)>>
  ELSE LET before == WrapSteps(r, u, n - 1)
           last == before[n]
       IN  Append(before, WrapSeq(ProgTable[r][u][1], last[Len(last)]))

WrapTable == [r \in Runs |-> [u \in Procs |-> WrapSteps(r, u, MaxSteps)]]

WrapNow(u) == WrapTable[run][u][step[u] + 1][pc[u]]

\* process u stands where the handler h returns to the host engine
Returns(u, h) ==
  /\ fn = "" /\ pc[u] > 1 /\ ProgOf(u)[pc[u] - 1].h = h
  /\ (AtEnd(u) \/ CurOp(u).h # h)

\* the pairs a call of the handler h must have completed: setup calls
\* post_force
PairsOf(h) ==
  [f \in Unmappers |->
     IF f = h \/ (h = "setup" /\ f = "post_force") THEN 1 ELSE 0]

\* C30: with mapflag set, every unmap of setup, initial_integrate and
\* post_force is matched by exactly one unmap_inv before the function
\* returns, positions are wrapped whenever control is with the host engine,
\* and the snapshot x_unwrap and the centroid xc that compute_vir_ reads
\* were both taken from unwrapped positions
C30_UnmapMatched ==
  (Running /\ fn = "" /\ cfg.mapflag = 1) =>
    \A u \in Procs :
      /\ WrapNow(u).depth \in {0, 1}
      /\ \A h \in Unmappers :
           Returns(u, h) =>
             WrapNow(u).depth = 0 /\ WrapNow(u).done = PairsOf(h)
      /\ (~AtEnd(u) /\ CurOp(u).h = "host") => WrapNow(u).depth = 0
      /\ AtEnd(u) => WrapNow(u).depth = 0
      /\ AtOp(u, "compute_vir_", "xf_xcf") =>
           WrapNow(u).snap = "unwrapped" /\ WrapNow(u).xc = "unwrapped"

\* a process returns from post_force in the last timestep with its one
\* pair completed, the snapshot and the centroid taken in between
C30_Witness ==
  /\ Running /\ cfg.mapflag = 1
  /\ \E u \in Procs :
       /\ Returns(u, "post_force") /\ step[u] = MaxSteps
       /\ WrapNow(u).done = PairsOf("post_force")
       /\ WrapNow(u).snap = "unwrapped" /\ WrapNow(u).xc = "unwrapped"

----------------------------------------------------------------------------
(* The representation of the positions (Spec).                             *)

\* process u is inside a centroid drift, an A sub-step or the local sum
\* of compute_spring_energy
ReadsModePositions(u) ==
  /\ fn = "" /\ ~AtEnd(u)
  /\ \/ CurOp(u).f \in {"qc_step", "a_step"}
     \/ CurOp(u).f = "compute_spring_energy" /\ CurOp(u).d = "spring_energy"

\* C31: with method nmpimd the positions are in normal-mode representation
\* at every centroid drift, every A sub-step and every spring-energy
\* computation, and in bead representation whenever setup or
\* initial_integrate returns and at every force evaluation of the host
C31_PositionsRepresentation ==
  (Running /\ fn = "" /\ cfg.method = "NMPIMD") =>
    \A u \in Procs :
      /\ ReadsModePositions(u) => RepNow(u).x = "mode"
      /\ (Returns(u, "setup") \/ Returns(u, "initial_integrate")) =>
           RepNow(u).x = "bead"
      /\ (~AtEnd(u) /\ CurOp(u).h = "host") => RepNow(u).x = "bead"

\* a process of an nmpimd run is at the second A sub-step of the last
\* timestep with its positions transformed
C31_Witness ==
  /\ Running /\ cfg.method = "NMPIMD"
  /\ \E u \in Procs :
       /\ ~AtEnd(u) /\ CurOp(u).f = "a_step" /\ step[u] = MaxSteps
       /\ RepNow(u).x = "mode"
       /\ ProgOf(u)[pc[u] + 1].f = "compute_spring_energy"

----------------------------------------------------------------------------
(* The virials of post_force (Spec).                                       *)

\* the positions of a program where a call of post_force starts (from
\* Verlet::run or from setup)
PostForceStarts(c, u, prog) ==
  {i \in 1 .. Len(prog) :
     /\ prog[i] = InHandler(prog[i].h, post_force(c, u))[1]
     /\ i + Len(post_force(c, u)) - 1 <= Len(prog)
     /\ SubSeq(prog, i, i + Len(post_force(c, u)) - 1)
          = InHandler(prog[i].h, post_force(c, u))}

PostForceTable ==
  [r \in Runs |-> [u \in Procs |-> [s \in {0, 1} |->
     PostForceStarts(RunCfg[r], u, ProgTable[r][u][s])]]]

\* where the call of post_force that process u is in started, 0 if it is
\* in none
PostForceStart(u) ==
  LET starts == {i \in PostForceTable[run][u][IF step[u] = 0 THEN 0 ELSE 1] :
                   i <= pc[u] /\ pc[u] < i + Len(post_force(cfg, u))}
  IN  IF starts = {} THEN 0 ELSE CHOOSE i \in starts : TRUE

\* the functions that write atom->x: qc_step (fix_dp_pimd.cpp:1548-1621),
\* a_step (1674-1695) and the transforms of the positions
ChangesPositions(op) ==
  \/ op.f \in {"qc_step", "a_step"}
  \/ op.f = "nmpimd_transform" /\ op.d \in {"x_forward", "x_inverse"}

\* the operation named by f and d is among the positions from .. to - 1 of
\* the program of u, and no operation after it there changes the positions
TakenSince(u, f, d, from, to) ==
  \E i \in from .. (to - 1) :
    /\ ProgOf(u)[i].f = f /\ ProgOf(u)[i].d = d
    /\ \A k \in i .. (to - 1) : ~ChangesPositions(ProgOf(u)[k])

\* C32: in every post_force the sums xf and xcf of compute_vir_ are taken
\* from the forces as the force provider returned them, before they are
\* transformed to normal modes, and from a snapshot x_unwrap and a centroid
\* xc that the same post_force refreshed after the positions last changed
C32_VirialFromBeadForces ==
  (Running /\ fn = "") =>
    \A u \in Procs :
      AtOp(u, "compute_vir_", "xf_xcf") =>
        /\ PostForceStart(u) > 0
        /\ RepNow(u).f = "bead" /\ RepNow(u).x = "bead"
        /\ TakenSince(u, "update_x_unwrap", "copy", PostForceStart(u), pc[u])
        /\ TakenSince(u, "compute_xc", "xc", PostForceStart(u), pc[u])

\* a process of an nmpimd run is at the sums of compute_vir_ in the
\* post_force of the last timestep, the forces not yet transformed
C32_Witness ==
  /\ Running /\ cfg.method = "NMPIMD"
  /\ \E u \in Procs :
       /\ AtOp(u, "compute_vir_", "xf_xcf") /\ step[u] = MaxSteps
       /\ CurOp(u).h = "post_force"
       /\ PostForceStart(u) > 1
       /\ RepNow(u).f = "bead"
       /\ RepTable[run][u][step[u] + 1][PostForceStart(u) + Len(post_force(cfg, u))].f = "mode"

----------------------------------------------------------------------------
(* A sequence of run commands (SpecRuns).  Each run is init, the force     *)
(* computation and setup of Verlet::setup, then timesteps; between two     *)
(* runs the input script may change the timestep.  Times are integers: dt  *)
(* is a multiple of 4, and an interval is the time a sub-step propagates.  *)

\* update->dt as the timestep command sets it
DtValues == {4, 8}

\* the constructor: baoab_ready = false (fix_dp_pimd.cpp:302); dtv, dtf and
\* the tables are assigned by init
consts0 ==
  [dtv |-> Indet, dtf |-> Indet, lan_half |-> Indet, c1_int |-> Indet,
   c1k_int |-> Indet, baoab_ready |-> FALSE]

\* fix_dp_pimd.cpp:1252-1319: _omega_np_dt_half = _omega_np * update->dt *
\* 0.5 (lan_half is its time factor), c1 = exp(-gamma * 0.5 * update->dt)
\* for obabo and exp(-gamma * update->dt) for baoab (c1_int is the time
\* factor), c1_k likewise for the PILE thermostats; baoab_ready = true
Langevin_init(c, k, d) ==
  [k EXCEPT !.lan_half = d \div 2,
            !.c1_int = IF c.integrator = "obabo" THEN d \div 2 ELSE d,
            !.c1k_int = IF c.thermostat \in {"PILE_L", "PILE_G"}
                        THEN (IF c.integrator = "obabo" THEN d \div 2 ELSE d)
                        ELSE k.c1k_int,
            !.baoab_ready = TRUE]

\* fix_dp_pimd.cpp:457-504: dtf = 0.5 * update->dt * ftm2v, dtv = 0.5 *
\* update->dt; Langevin_init only if(!baoab_ready)
init_consts(c, k, d) ==
  LET half == [k EXCEPT !.dtv = d \div 2, !.dtf = d \div 2]
  IN  IF ~k.baoab_ready THEN Langevin_init(c, half, d) ELSE half

\* depth of x, v, f: forward transforms not undone; peak: the largest
\* depth any array has had; B, A, drift, piston, O: the intervals
\* propagated by the sub-steps of each kind since the timestep began
track0 ==
  [x |-> 0, v |-> 0, f |-> 0, peak |-> 0,
   B |-> 0, A |-> 0, drift |-> 0, piston |-> 0, O |-> 0]

Larger(a, b) == IF a >= b THEN a ELSE b

\* the effect of one operation: nmpimd_transform (fix_dp_pimd.cpp:564,
\* 574, 584, 724, 871, 946, 1227), the force computation of the host,
\* b_step (1323-1379: dtf), a_step (1674-1695: Lan_c, Lan_s), qc_step
\* (1548-1621: dtv), press_v_step (1788: dtv; 1829-1831: 0.5 * dtv) and
\* o_step (1849-1895: c1, c1_k[universe->iworld])
TrackAfter(k, u, t, op) ==
  CASE op.f = "nmpimd_transform" /\ op.d = "x_forward" ->
         [t EXCEPT !.x = t.x + 1, !.peak = Larger(t.peak, t.x + 1)]
    [] op.f = "nmpimd_transform" /\ op.d = "x_inverse" ->
         [t EXCEPT !.x = t.x - 1]
    [] op.f = "nmpimd_transform" /\ op.d = "v_forward" ->
         [t EXCEPT !.v = t.v + 1, !.peak = Larger(t.peak, t.v + 1)]
    [] op.f = "nmpimd_transform" /\ op.d = "f_forward" ->
         [t EXCEPT !.f = t.f + 1, !.peak = Larger(t.peak, t.f + 1)]
    [] op.f = "host_force" -> [t EXCEPT !.f = 0]
    [] op.f = "b_step" -> [t EXCEPT !.B = t.B + k.dtf]
    [] op.f = "a_step" -> [t EXCEPT !.A = t.A + k.lan_half]
    [] op.f = "qc_step" /\ op.e -> [t EXCEPT !.drift = t.drift + k.dtv]
    [] op.f = "press_v_step" /\ op.d = "bzp" ->
         [t EXCEPT !.piston = t.piston + k.dtv]
    [] op.f = "press_v_step" /\ op.d = "mttk" ->
         [t EXCEPT !.piston = t.piston + k.dtv \div 2]
    [] op.f = "o_step" /\ op.e ->
         [t EXCEPT !.O = t.O + (IF iworldOf(u) = 0 THEN k.c1_int
                                 ELSE IF k.c1k_int = Indet THEN k.c1_int
                                 ELSE k.c1k_int)]
    [] OTHER -> t

\* the effect of the operations lo .. hi - 1 of a program (the first half
\* is evaluated before the second is entered)
RECURSIVE TrackRange(_, _, _, _, _, _)
TrackRest(k, u, prog, mid, hi, left) ==
  IF left.peak >= 0 THEN TrackRange(k, u, prog, mid, hi, left) ELSE left

TrackRange(k, u, prog, lo, hi, t) ==
  IF lo >= hi THEN t
  ELSE IF lo + 1 = hi THEN TrackAfter(k, u, t, prog[lo])
  ELSE TrackRest(k, u, prog, (lo + hi) \div 2, hi,
                 TrackRange(k, u, prog, lo, (lo + hi) \div 2, t))

TrackAll(k, u, prog, t) == TrackRange(k, u, prog, 1, Len(prog) + 1, t)

\* the programs of the handlers, per run and process
HandlerTable ==
  [r \in Runs |-> [u \in Procs |->
     [init |-> init(RunCfg[r], u),
      setup |-> host_force \o setup(RunCfg[r], u),
      initial_integrate |-> initial_integrate(RunCfg[r], u),
      force |-> host_force,
      post_force |-> post_force(RunCfg[r], u),
      final_integrate |-> final_integrate(RunCfg[r], u),
      end_of_step |-> end_of_step(RunCfg[r], u)]]]

\* every process runs the handler h
HandlerEffect(h, t0) ==
  [u \in Procs |-> TrackAll(consts, u, HandlerTable[run][u][h], t0[u])]

\* the timestep command of the input script
HostTimestep ==
  /\ hnext = "timestep"
  /\ dt' \in DtValues
  /\ hnext' = "init"
  /\ UNCHANGED <<ctorVars, hostVars, commVars, stepVars, gridVars, nmVars,
                 oneVars, bufVars, trVars, subVars, consts, track, nrun, nstep>>

\* FixDPPimd::init, called by every run command
CallInit ==
  /\ hnext = "init"
  /\ consts' = init_consts(cfg, consts, dt)
  /\ hnext' = "setup"
  /\ UNCHANGED <<ctorVars, hostVars, commVars, stepVars, gridVars, nmVars,
                 oneVars, bufVars, trVars, subVars, dt, track, nrun, nstep>>

\* Verlet::setup: the forces are computed, then FixDPPimd::setup runs
CallSetup ==
  /\ hnext = "setup"
  /\ track' = HandlerEffect("setup", track)
  /\ nstep' = 0
  /\ hnext' = "initial_integrate"
  /\ UNCHANGED <<ctorVars, hostVars, commVars, stepVars, gridVars, nmVars,
                 oneVars, bufVars, trVars, subVars, dt, consts, nrun>>

\* the intervals of a timestep are counted from its start
Cleared(t) ==
  [t EXCEPT !.B = 0, !.A = 0, !.drift = 0, !.piston = 0, !.O = 0]

CallInitialIntegrate ==
  /\ hnext = "initial_integrate" /\ nstep < MaxSteps
  /\ track' = HandlerEffect("initial_integrate", [u \in Procs |-> Cleared(track[u])])
  /\ hnext' = "force"
  /\ UNCHANGED <<ctorVars, hostVars, commVars, stepVars, gridVars, nmVars,
                 oneVars, bufVars, trVars, subVars, dt, consts, nrun, nstep>>

\* the force computation of Verlet::run between initial_integrate and
\* post_force
HostForce ==
  /\ hnext = "force"
  /\ track' = HandlerEffect("force", track)
  /\ hnext' = "post_force"
  /\ UNCHANGED <<ctorVars, hostVars, commVars, stepVars, gridVars, nmVars,
                 oneVars, bufVars, trVars, subVars, dt, consts, nrun, nstep>>

CallPostForce ==
  /\ hnext = "post_force"
  /\ track' = HandlerEffect("post_force", track)
  /\ hnext' = "final_integrate"
  /\ UNCHANGED <<ctorVars, hostVars, commVars, stepVars, gridVars, nmVars,
                 oneVars, bufVars, trVars, subVars, dt, consts, nrun, nstep>>

CallFinalIntegrate ==
  /\ hnext = "final_integrate"
  /\ track' = HandlerEffect("final_integrate", track)
  /\ hnext' = "end_of_step"
  /\ UNCHANGED <<ctorVars, hostVars, commVars, stepVars, gridVars, nmVars,
                 oneVars, bufVars, trVars, subVars, dt, consts, nrun, nstep>>

CallEndOfStep ==
  /\ hnext = "end_of_step"
  /\ track' = HandlerEffect("end_of_step", track)
  /\ hnext' = "initial_integrate"
  /\ nstep' = nstep + 1
  /\ UNCHANGED <<ctorVars, hostVars, commVars, stepVars, gridVars, nmVars,
                 oneVars, bufVars, trVars, subVars, dt, consts, nrun>>

\* the run command returns and the input script goes on to the next
NextRun ==
  /\ hnext = "initial_integrate" /\ nrun < MaxRuns
  /\ nrun' = nrun + 1
  /\ hnext' = "timestep"
  /\ UNCHANGED <<ctorVars, hostVars, commVars, stepVars, gridVars, nmVars,
                 oneVars, bufVars, trVars, subVars, dt, consts, track, nstep>>

InitRuns ==
  /\ run \in Runs /\ arg = RunList[run] /\ cfg = RunCfg[run]
  /\ stage = "constructed"
  /\ hostIdle /\ commIdle /\ stepIdle /\ gridIdle /\ nmIdle /\ oneIdle
  /\ bufIdle /\ trIdle /\ subIdle
  /\ dt \in DtValues
  /\ consts = consts0
  /\ track = [u \in Procs |-> track0]
  /\ hnext = "init" /\ nrun = 1 /\ nstep = 0

NextRuns ==
  \/ HostTimestep
  \/ CallInit
  \/ CallSetup
  \/ CallInitialIntegrate
  \/ HostForce
  \/ CallPostForce
  \/ CallFinalIntegrate
  \/ CallEndOfStep
  \/ NextRun

SpecRuns == InitRuns /\ [][NextRuns]_vars

\* C33: across any sequence of runs no per-particle array is transformed
\* forward to normal modes twice without an inverse transform or a fresh
\* computation in between; the velocities are transformed forward once,
\* however many times setup is invoked
C33_NoDoubleTransform ==
  hnext # "" => \A u \in Procs : track[u].peak <= 1 /\ track[u].v <= 1

\* the friction interval of one O sub-step: half a timestep in OBABO, a
\* whole one in BAOAB
FrictionInterval(c, d) == IF c.integrator = "obabo" THEN d \div 2 ELSE d

\* init has returned in the run being executed
AfterInit == hnext \notin {"", "timestep", "init"}

\* C35: after every init call, across any sequence of runs, c1, c2, the
\* per-mode c1_k, c2_k, tau_k and the rotation tables Lan_c, Lan_s are the
\* ones derived from the timestep in force at that init, as dtv and dtf
\* recomputed by the same init are
C35_TablesMatchInit ==
  AfterInit =>
    /\ consts.dtv = dt \div 2 /\ consts.dtf = dt \div 2
    /\ consts.lan_half = dt \div 2
    /\ consts.c1_int = FrictionInterval(cfg, dt)
    /\ cfg.thermostat \in {"PILE_L", "PILE_G"} =>
         consts.c1k_int = FrictionInterval(cfg, dt)

\* a timestep of the run has just been completed
StepCompleted == hnext = "initial_integrate" /\ nstep >= 1

\* C37: in every timestep and in both schemes the intervals of the
\* sub-steps of each kind add up to dt: the two B kicks, the two A
\* rotations, the two centroid drifts, the two piston kicks when a barostat
\* is active, and the O sub-steps (two of dt/2 in OBABO, one of dt in BAOAB)
C37_IntervalsAddUp ==
  StepCompleted =>
    \A u \in Procs :
      /\ track[u].B = dt /\ track[u].A = dt /\ track[u].drift = dt
      /\ cfg.pextflag = 1 => track[u].piston = dt
      /\ Thermostatted(cfg) => track[u].O = dt

----------------------------------------------------------------------------
(* Members read before any assignment (Spec).                              *)

\* C34: every parameter and state variable read during construction, init,
\* a timestep or output was assigned a default or a parsed value before,
\* for every accepted keyword list: seed, read when the generator is seeded
\* by the constructor (fix_dp_pimd.cpp:233-236), pilescale, read by
\* Langevin_init for the PILE thermostats (1290-1306), and vw, returned by
\* compute_vector in every timestep (2679-2680) and assigned by init only
\* under pextflag (506-517)
C34_AssignedBeforeRead ==
  stage = "constructed" =>
    /\ cfg.integrator \in {"obabo", "baoab"} => cfg.seed # Indet
    /\ cfg.thermostat \in {"PILE_L", "PILE_G"} => cfg.pilescale # Indet
    /\ \A u \in Procs : step[u] >= 1 => vw[u] # Indet

----------------------------------------------------------------------------
(* The piston velocity (Spec).                                             *)

\* the functions that assign vw: fix_dp_pimd.cpp:514, 1788-1826, 1843-1846
VwWriters == {"init", "press_v_step", "press_o_step"}

\* a step that changes the vw of a process is an operation of init,
\* press_v_step or press_o_step of that process
VwFrame ==
  \A u \in Procs :
    vw'[u] # vw[u] => ~AtEnd(u) /\ CurOp(u).f \in VwWriters

\* going on to the next timestep leaves vw as it is
VwPersists == step' # step => vw' = vw

\* C36: vw is modified only by init, press_v_step and press_o_step; the B,
\* A, O and centroid-drift sub-steps, the exchange, the transforms, the
\* removal of the center-of-mass motion and the estimators leave it
\* unchanged, and its value persists from one timestep to the next
C36_VwWrittenOnlyByPiston == [][Running => VwFrame /\ VwPersists]_vars

\* a process enters its second timestep with the piston velocity the
\* kicks of the first one left
C36_Witness ==
  \E u \in Procs :
    /\ Running /\ step[u] = 2 /\ pc[u] = 1
    /\ vw[u] \notin {0, Indet}

----------------------------------------------------------------------------
(* The ensemble and the sub-steps of a timestep (SpecArgs).                *)

\* the operations process u executes in one timestep under the
\* configuration c
OpsOf(c, u) == {StepProg(c, u)[i] : i \in DOMAIN StepProg(c, u)}

\* the sub-steps that draw random numbers: o_step (with svr_step) and
\* press_o_step
StochasticFns == {"o_step", "svr_step", "press_o_step"}

\* the sub-steps that write the piston velocity
PistonFns == {"press_v_step", "press_o_step"}

\* the operations of qc_step that write the box lengths and bounds
\* (fix_dp_pimd.cpp:1585-1620)
WritesBox(op) ==
  op.f = "qc_step" /\ op.d \in {"drift_scale", "xprd", "yprd", "zprd", "set_box"}

\* C38: the ensemble gates the stochastic and barostat sub-steps: with nve
\* and nph a timestep has no O sub-step and no barostat-O and draws no
\* random number; with nve and nvt it has no piston kick and no barostat-O,
\* and writes neither the box lengths nor the piston velocity
C38_EnsembleGates ==
  (stage = "constructed" /\ cfg.integrator \in {"obabo", "baoab"}) =>
    \A u \in Procs : \A op \in OpsOf(cfg, u) :
      /\ cfg.ensemble \in {"nve", "nph"} => op.f \notin StochasticFns
      /\ cfg.ensemble \in {"nve", "nvt"} =>
           op.f \notin PistonFns /\ ~WritesBox(op)

----------------------------------------------------------------------------
(* The division by the piston velocity in qc_step (Spec).                  *)

\* process u is about to execute the BZP position update of qc_step, whose
\* factor is (expq - expp) / 2. / vw (fix_dp_pimd.cpp:1584-1599)
DividesByVw(u) ==
  /\ Running /\ AtOp(u, "qc_step", "drift_scale")
  /\ iworldOf(u) = 0 /\ cfg.barostat = "BZP"

\* C39: whenever qc_step runs with the BZP barostat, the position update
\* does not divide by a piston velocity equal to 0, the value init assigns
C39_DriftDefined == \A u \in Procs : DividesByVw(u) => vw[u] # 0

====
